---------------------------- MODULE Spec2Model ----------------------------
(***************************************************************************)
(* A model of sliderule-rs (src/src/lib.rs): the component hierarchy walk, *)
(* the key-scoped text read/update primitives and the license             *)
(* amalgamation built on them.                                             *)
(*                                                                         *)
(* Text is modelled at character level: a string is a sequence of          *)
(* one-character strings, so that str::contains, str::split, str::replace  *)
(* and str::trim are computed as Rust computes them.  A path is a sequence *)
(* of names (each name a string in that sense), relative to the directory  *)
(* the scenario works in.                                                  *)
(***************************************************************************)
EXTENDS Integers, Sequences, FiniteSets, TLC

VARIABLES
    dirs,      \* the directories that exist (a set of paths)
    links,     \* the directories among them that are symbolic links
    files,     \* the regular files that exist: path -> content
    output,    \* the SROutput returned by the last call
    call,      \* the last call made: its operation and arguments
    pre,       \* the content of `files` when the last call started
    writes,    \* the paths handed to fs::write during the last call, in order
    ret,       \* the value returned by the last call (for the reading calls)
    input,     \* the values handed to a call that takes no file (pure helpers)
    panicked   \* TRUE once a call has aborted the process (panic!/expect/index)

vars == <<dirs, links, files, output, call, pre, writes, ret, input, panicked>>

\* let x = v; ... : the value of F for v, with v evaluated once
Bind(v, F(_)) == CHOOSE y \in {F(x) : x \in {v}} : TRUE

-----------------------------------------------------------------------------
(* Characters and strings                                                  *)

\* The line feed and the printable ASCII characters (but the backquote), in
\* ascending order of their code points (str comparison in Rust is bytewise).
AsciiOrder ==
    <<"\n", " ", "!", "\"", "#", "$", "%", "&", "'", "(", ")", "*", "+", ",",
       "-", ".", "/", "0", "1", "2", "3", "4", "5", "6", "7", "8", "9", ":",
       ";", "<", "=", ">", "?", "@", "A", "B", "C", "D", "E", "F", "G", "H",
       "I", "J", "K", "L", "M", "N", "O", "P", "Q", "R", "S", "T", "U", "V",
       "W", "X", "Y", "Z", "[", "\\", "]", "^", "_", "a", "b", "c", "d", "e",
       "f", "g", "h", "i", "j", "k", "l", "m", "n", "o", "p", "q", "r", "s",
       "t", "u", "v", "w", "x", "y", "z", "{", "|", "}", "~" >>

CodePoint == [c \in {AsciiOrder[i] : i \in DOMAIN AsciiOrder} |->
                 CHOOSE i \in DOMAIN AsciiOrder : AsciiOrder[i] = c]

Ord(c) == CodePoint[c]

\* a < b for two strings, as `<` on str compares them (lexicographic by code point)
StrLess(a, b) ==
    LET n == IF Len(a) < Len(b) THEN Len(a) ELSE Len(b)
    IN  IF \A i \in 1..n : a[i] = b[i] THEN Len(a) < Len(b)
        ELSE LET d == CHOOSE i \in 1..n :
                          a[i] # b[i] /\ \A j \in 1..(i - 1) : a[j] = b[j]
             IN  Ord(a[d]) < Ord(b[d])

\* p occurs in s at index i
MatchAt(s, p, i) ==
    /\ i + Len(p) - 1 <= Len(s)
    /\ p = <<>> \/ s[i] = p[1]
    /\ SubSeq(s, i, i + Len(p) - 1) = p

\* str::contains: the empty pattern is contained in every string
contains(s, p) == \E i \in 1..(Len(s) - Len(p) + 1) : MatchAt(s, p, i)

\* the first index at or after i where p occurs in s, 0 when there is none
NextMatch(s, p, i) ==
    IF \E j \in i..(Len(s) - Len(p) + 1) : MatchAt(s, p, j)
    THEN CHOOSE j \in i..(Len(s) - Len(p) + 1) :
             MatchAt(s, p, j) /\ \A k \in i..(j - 1) : ~MatchAt(s, p, k)
    ELSE 0

\* str::replace for a non-empty pattern: every non-overlapping match, left to right
RECURSIVE replace_from(_, _, _, _)
replace_from(s, from, to, i) ==
    LET j == NextMatch(s, from, i)
    IN  IF j = 0 THEN SubSeq(s, i, Len(s))
        ELSE SubSeq(s, i, j - 1) \o to \o replace_from(s, from, to, j + Len(from))

\* str::replace for the empty pattern: it matches at every character boundary,
\* so `to` is inserted before every character and at the end
replace_empty(s, to) ==
    LET m == Len(to)
    IN  [k \in 1..(Len(s) * (m + 1) + m) |->
            IF (k - 1) % (m + 1) < m
            THEN to[((k - 1) % (m + 1)) + 1]
            ELSE s[((k - 1) \div (m + 1)) + 1]]

\* str::replace(from, to)
replace(s, from, to) ==
    IF from = <<>> THEN replace_empty(s, to) ELSE replace_from(s, from, to, 1)

\* str::split on a one-character separator: always at least one part
RECURSIVE split(_, _)
split(s, c) ==
    LET i == NextMatch(s, <<c>>, 1)
    IN  IF i = 0 THEN <<s>>
        ELSE <<SubSeq(s, 1, i - 1)>> \o split(SubSeq(s, i + 1, Len(s)), c)

\* str::lines: the text between line feeds, without a final empty line
\* (the scenarios use "\n" line ends, get_newline on a non-Windows system)
lines(s) ==
    LET parts == split(s, "\n")
    IN  IF parts[Len(parts)] = <<>> THEN SubSeq(parts, 1, Len(parts) - 1) ELSE parts

IsSpace(c) == c = " "

\* str::trim: leading and trailing white space removed
RECURSIVE trim_start(_)
trim_start(s) ==
    IF s # <<>> /\ IsSpace(Head(s)) THEN trim_start(Tail(s)) ELSE s

RECURSIVE trim_end(_)
trim_end(s) ==
    IF s # <<>> /\ IsSpace(s[Len(s)]) THEN trim_end(SubSeq(s, 1, Len(s) - 1)) ELSE s

trim(s) == trim_end(trim_start(s))

\* concatenation of a sequence of strings
RECURSIVE Concat(_)
Concat(ss) == IF ss = <<>> THEN <<>> ELSE Head(ss) \o Concat(Tail(ss))


-----------------------------------------------------------------------------
(* SROutput and the outcome of file I/O                                    *)

\* The outcome the environment gives to the file I/O of one call: everything
\* succeeds, the first read of an existing file fails, or the write fails.
\* fs::write opens the file with truncation and then writes the text: it
\* fails either at the open, which leaves the file as it was
\* ("write_fails"), or after it, which leaves the file cut short
\* ("write_cut").
IoOutcomes == {"ok", "read_fails", "write_fails", "write_cut"}

\* what a write that has failed after the truncation leaves in the file: the
\* first bytes of the text (none of them, here)
cut_short(text) == SubSeq(text, 1, 0)

\* SROutput { status: 0, wrapped_status: 0, stdout: Vec::new(), stderr: Vec::new() }
NewOutput == [status |-> 0, wrapped_status |-> 0, stdout |-> <<>>, stderr |-> <<>>]

\* combine_sroutputs(dest, src)
combine_sroutputs(dest, src) ==
    [status         |-> IF dest.status = 0 /\ src.status # 0 THEN src.status ELSE dest.status,
     wrapped_status |-> dest.wrapped_status,
     stdout         |-> dest.stdout \o src.stdout,
     stderr         |-> dest.stderr \o src.stderr]

-----------------------------------------------------------------------------
(* The key-scoped text primitives                                          *)

\* part[1].replace("\"", "").replace(",", "").trim()   (get/update_json_value)
json_part_value(part) == trim(replace(replace(part[2], <<"\"">>, <<>>), <<",">>, <<>>))

\* part[1].replace(",", "").trim()                      (get/update_yaml_value)
yaml_part_value(part) == trim(replace(part[2], <<",">>, <<>>))

\* a variant of has_change that forgets the test
has_change_unchecked(new_contents) == TRUE

\* `if !new_contents.is_empty()`: make sure there's a change to write
has_change(new_contents) == new_contents # <<>>

\* a variant of get_json_loop that stops at the first line containing the key
RECURSIVE get_json_loop_first(_, _, _)
get_json_loop_first(ls, key, value) ==
    IF ls = <<>> THEN [panic |-> FALSE, value |-> value]
    ELSE IF contains(Head(ls), key)
         THEN LET part == split(Head(ls), ":")
              IN  IF Len(part) < 2 THEN [panic |-> TRUE, value |-> value]
                  ELSE [panic |-> FALSE, value |-> json_part_value(part)]
         ELSE get_json_loop_first(Tail(ls), key, value)

\* The loop of get_json_value over the remaining lines ls: the value of every
\* line containing the key overwrites the one before; part[1] of a line
\* without ':' is an index out of bounds, which aborts.
RECURSIVE get_json_loop(_, _, _)
get_json_loop(ls, key, value) ==
    IF ls = <<>> THEN [panic |-> FALSE, value |-> value]
    ELSE IF contains(Head(ls), key)
         THEN LET part == split(Head(ls), ":")
              IN  IF Len(part) < 2 THEN [panic |-> TRUE, value |-> value]
                  ELSE get_json_loop(Tail(ls), key, json_part_value(part))
         ELSE get_json_loop(Tail(ls), key, value)

\* get_json_value(json_file, key): a missing file is a panic!, a failed open or
\* read an expect
get_json_value(fs, json_file, key, io) ==
    IF json_file \in DOMAIN fs
    THEN IF io = "read_fails" THEN [panic |-> TRUE, value |-> <<>>]
         ELSE get_json_loop(lines(fs[json_file]), key, <<>>)
    ELSE [panic |-> TRUE, value |-> <<>>]

\* The loop of update_json_value: new_contents is recomputed from the
\* unchanged `contents` for every line that contains the key.
RECURSIVE update_json_loop(_, _, _, _, _)
update_json_loop(contents, ls, key, value, new_contents) ==
    IF ls = <<>> THEN [panic |-> FALSE, new_contents |-> new_contents]
    ELSE IF contains(Head(ls), key)
         THEN LET line == Head(ls)
                  part == split(line, ":")
              IN  IF Len(part) < 2 THEN [panic |-> TRUE, new_contents |-> new_contents]
                  ELSE LET old_value == json_part_value(part)
                           new_line  == replace(line, old_value, value)
                       IN  update_json_loop(contents, Tail(ls), key, value,
                                            replace(contents, line, new_line))
         ELSE update_json_loop(contents, Tail(ls), key, value, new_contents)

\* update_json_value(json_file, key, value): nothing is done for a missing
\* file; the file is written only when new_contents is not empty.
update_json_value(fs, json_file, key, value, io) ==
    IF json_file \in DOMAIN fs
    THEN IF io = "read_fails" THEN [panic |-> TRUE, files |-> fs, writes |-> <<>>]
         ELSE Bind(update_json_loop(fs[json_file], lines(fs[json_file]), key, value, <<>>), LAMBDA r :
                  IF r.panic THEN [panic |-> TRUE, files |-> fs, writes |-> <<>>]
                  ELSE IF has_change(r.new_contents)
                       THEN IF io = "write_fails"
                            THEN [panic |-> TRUE, files |-> fs, writes |-> <<json_file>>]
                            ELSE IF io = "write_cut"
                            THEN [panic  |-> TRUE,
                                  files  |-> [fs EXCEPT ![json_file] = cut_short(r.new_contents)],
                                  writes |-> <<json_file>>]
                            ELSE [panic  |-> FALSE,
                                  files  |-> [fs EXCEPT ![json_file] = r.new_contents],
                                  writes |-> <<json_file>>]
                       ELSE [panic |-> FALSE, files |-> fs, writes |-> <<>>])
    ELSE [panic |-> FALSE, files |-> fs, writes |-> <<>>]

\* The loop of get_yaml_value
RECURSIVE get_yaml_loop(_, _, _)
get_yaml_loop(ls, key, value) ==
    IF ls = <<>> THEN [panic |-> FALSE, value |-> value]
    ELSE IF contains(Head(ls), key)
         THEN LET part == split(Head(ls), ":")
              IN  IF Len(part) < 2 THEN [panic |-> TRUE, value |-> value]
                  ELSE get_yaml_loop(Tail(ls), key, yaml_part_value(part))
         ELSE get_yaml_loop(Tail(ls), key, value)

\* get_yaml_value(yaml_file, key)
get_yaml_value(fs, yaml_file, key, io) ==
    IF yaml_file \in DOMAIN fs
    THEN IF io = "read_fails" THEN [panic |-> TRUE, value |-> <<>>]
         ELSE get_yaml_loop(lines(fs[yaml_file]), key, <<>>)
    ELSE [panic |-> TRUE, value |-> <<>>]

\* The loop of update_yaml_value
RECURSIVE update_yaml_loop(_, _, _, _, _)
update_yaml_loop(contents, ls, key, value, new_contents) ==
    IF ls = <<>> THEN [panic |-> FALSE, new_contents |-> new_contents]
    ELSE IF contains(Head(ls), key)
         THEN LET line == Head(ls)
                  part == split(line, ":")
              IN  IF Len(part) < 2 THEN [panic |-> TRUE, new_contents |-> new_contents]
                  ELSE LET old_value == yaml_part_value(part)
                           new_line  == replace(line, old_value, value)
                       IN  update_yaml_loop(contents, Tail(ls), key, value,
                                            replace(contents, line, new_line))
         ELSE update_yaml_loop(contents, Tail(ls), key, value, new_contents)

\* update_yaml_value(yaml_file, key, value) -> SROutput: status 3 for a missing
\* file, 4 for a failed read, 5 for a failed write.
update_yaml_value(fs, yaml_file, key, value, io) ==
    IF yaml_file \in DOMAIN fs
    THEN IF io = "read_fails"
         THEN [panic |-> FALSE, files |-> fs, writes |-> <<>>,
               output |-> [NewOutput EXCEPT
                   !.status = 4,
                   !.stderr = <<"ERROR: Could not update the contents of the YAML file: {}">>]]
         ELSE Bind(update_yaml_loop(fs[yaml_file], lines(fs[yaml_file]), key, value, <<>>), LAMBDA r :
                  IF r.panic
                  THEN [panic |-> TRUE, files |-> fs, writes |-> <<>>, output |-> NewOutput]
                  ELSE IF has_change(r.new_contents)
                       THEN IF io = "write_fails"
                            THEN [panic |-> FALSE, files |-> fs, writes |-> <<yaml_file>>,
                                  output |-> [NewOutput EXCEPT
                                      !.status = 5,
                                      !.stderr = <<"ERROR: Could not write to the YAML file: {}">>]]
                            ELSE IF io = "write_cut"
                            THEN [panic  |-> FALSE,
                                  files  |-> [fs EXCEPT ![yaml_file] = cut_short(r.new_contents)],
                                  writes |-> <<yaml_file>>,
                                  output |-> [NewOutput EXCEPT
                                      !.status = 5,
                                      !.stderr = <<"ERROR: Could not write to the YAML file: {}">>]]
                            ELSE [panic  |-> FALSE,
                                  files  |-> [fs EXCEPT ![yaml_file] = r.new_contents],
                                  writes |-> <<yaml_file>>,
                                  output |-> NewOutput]
                       ELSE [panic |-> FALSE, files |-> fs, writes |-> <<>>, output |-> NewOutput])
    ELSE [panic |-> FALSE, files |-> fs, writes |-> <<>>,
          output |-> [NewOutput EXCEPT
              !.status = 3,
              !.stderr = <<"ERROR: YAML file to be updated does not exist.">>]]

-----------------------------------------------------------------------------
(* Names, keys and sample text                                             *)

\* the keys the program reads and updates
license               == <<"l", "i", "c", "e", "n", "s", "e">>
source_license        == <<"s", "o", "u", "r", "c", "e", "_">> \o license
documentation_license == <<"d", "o", "c", "u", "m", "e", "n", "t", "a", "t", "i", "o", "n", "_">> \o license
name_key              == <<"n", "a", "m", "e">>

\* file and directory names
package_json == <<"p", "a", "c", "k", "a", "g", "e", ".", "j", "s", "o", "n">>
dot_sr       == <<".", "s", "r">>
components   == <<"c", "o", "m", "p", "o", "n", "e", "n", "t", "s">>
node_modules == <<"n", "o", "d", "e", "_", "m", "o", "d", "u", "l", "e", "s">>

\* license identifiers and other values
MIT       == <<"M", "I", "T">>
GPL       == <<"G", "P", "L">>
CC0       == <<"C", "C", "0">>
CCBY      == <<"C", "C", "-", "B", "Y">>
Unlicense == <<"U", "n">> \o license
NoValue   == <<>>

NL    == <<"\n">>
Quote == <<"\"">>

\* `  "key": "value",` : a line of package.json as package_json_template lays it out
JsonLine(key, value) ==
    <<" ", " ">> \o Quote \o key \o Quote \o <<":", " ">> \o Quote \o value \o Quote \o <<",">>

\* `key: value` : a line of .sr as sr_file_template lays it out (without the comma)
YamlLine(key, value) == key \o <<":", " ">> \o value

\* the text of a file made of the given lines, each ended by a line feed
RECURSIVE TextOf(_)
TextOf(ls) == IF ls = <<>> THEN <<>> ELSE Head(ls) \o NL \o TextOf(Tail(ls))

\* the sequences of at most n elements of S
RECURSIVE SeqsUpTo(_, _)
SeqsUpTo(S, n) ==
    IF n = 0 THEN {<<>>}
    ELSE LET shorter == SeqsUpTo(S, n - 1)
         IN  shorter \cup {Append(q, x) : q \in shorter, x \in S}

-----------------------------------------------------------------------------
(* The hierarchy walk                                                      *)

\* .max_depth(100)
max_depth == 100

\* the string form of a path: its names joined by '/'
RECURSIVE PathString(_)
PathString(p) ==
    IF p = <<>> THEN <<>>
    ELSE IF Len(p) = 1 THEN p[1]
    ELSE p[1] \o <<"/">> \o PathString(Tail(p))

\* path_cmp(a, b): Less when a's string is below b's, Greater otherwise
path_cmp(a, b) ==
    IF StrLess(PathString(a), PathString(b)) THEN "Less" ELSE "Greater"

\* the entries (directories and files) of directory d
Children(ds, fs, d) ==
    {p \in ds \cup DOMAIN fs : Len(p) = Len(d) + 1 /\ SubSeq(p, 1, Len(d)) = d}

\* .sort_by(path_cmp): the entries of one directory in the comparator's order
sort_by(S) ==
    Bind([a \in S |-> Cardinality({b \in S : path_cmp(b, a) = "Less"})],
         LAMBDA below :
             [k \in 1..Cardinality(S) |-> CHOOSE a \in S : below[a] = k - 1])

\* a variant of descends that follows symbolic links
descends_following_links(ds, lk, e) == e \in ds

\* .follow_links(false): the walk goes down into a directory that is not a
\* symbolic link
descends(ds, lk, e) == e \in ds /\ e \notin lk

\* pattern ".sr": the entry is a file of that name
is_marker(fs, e) == e \in DOMAIN fs /\ e[Len(e)] = dot_sr

\* The walk over the sorted entries of one directory, which lie at `depth`
\* below the root: an entry is yielded before the entries beneath it, and
\* nothing deeper than max_depth is visited.
RECURSIVE walk(_, _, _, _, _)
walk(ds, lk, fs, entries, depth) ==
    IF entries = <<>> \/ depth > max_depth THEN <<>>
    ELSE LET e == Head(entries)
         IN  (IF is_marker(fs, e) THEN <<e>> ELSE <<>>)
             \o (IF descends(ds, lk, e)
                 THEN walk(ds, lk, fs, sort_by(Children(ds, fs, e)), depth + 1)
                 ELSE <<>>)
             \o walk(ds, lk, fs, Tail(entries), depth)

\* get_sr_paths(target_dir)
get_sr_paths(ds, lk, fs, target_dir) ==
    walk(ds, lk, fs, sort_by(Children(ds, fs, target_dir)), 1)

-----------------------------------------------------------------------------
(* License amalgamation                                                    *)

AND == <<" ", "A", "N", "D", " ">>

\* a variant of push_unique that pushes every value
push_always(list, value) == Append(list, value)

\* if !list.contains(&value) { list.push(value) }
push_unique(list, value) ==
    IF \E i \in DOMAIN list : list[i] = value THEN list ELSE Append(list, value)

\* a variant of collect_licenses that leaves empty values out of the lists
RECURSIVE collect_licenses_without_empty(_, _, _)
collect_licenses_without_empty(vals, source_licenses, doc_licenses) ==
    IF vals = <<>>
    THEN [source_licenses |-> source_licenses, doc_licenses |-> doc_licenses]
    ELSE collect_licenses_without_empty(
             Tail(vals),
             IF Head(vals).source_value = <<>> THEN source_licenses
             ELSE push_unique(source_licenses, Head(vals).source_value),
             IF Head(vals).doc_value = <<>> THEN doc_licenses
             ELSE push_unique(doc_licenses, Head(vals).doc_value))

\* The loop over the entries of the walk: vals[i] holds the two values read
\* from the i-th marker.
RECURSIVE collect_licenses(_, _, _)
collect_licenses(vals, source_licenses, doc_licenses) ==
    IF vals = <<>>
    THEN [source_licenses |-> source_licenses, doc_licenses |-> doc_licenses]
    ELSE collect_licenses(Tail(vals),
                          push_unique(source_licenses, Head(vals).source_value),
                          push_unique(doc_licenses, Head(vals).doc_value))

\* for lic in list { if i > 0 { push " AND " }; push lic; i = i + 1 }
RECURSIVE and_concatenate(_, _)
and_concatenate(list, i) ==
    IF i >= Len(list) THEN <<>>
    ELSE (IF i > 0 THEN AND ELSE <<>>) \o list[i + 1] \o and_concatenate(list, i + 1)

\* a variant of junction_needed that looks at the source licenses only
junction_after_sources(doc_len, i) == i > 0

\* if doc_licenses.len() > 0 && i > 0: an AND goes between the two lists
junction_needed(doc_len, i) == doc_len > 0 /\ i > 0

\* the license string built from the two lists
license_str(source_licenses, doc_licenses) ==
    <<"(">>
    \o and_concatenate(source_licenses, 0)
    \o (IF junction_needed(Len(doc_licenses), Len(source_licenses)) THEN AND ELSE <<>>)
    \o and_concatenate(doc_licenses, 0)
    \o <<")">>

\* The two reads made for each entry, in order; the first one that aborts
\* ends the call.
RECURSIVE read_entries(_, _, _)
read_entries(fs, entries, io) ==
    IF entries = <<>> THEN [panic |-> FALSE, vals |-> <<>>]
    ELSE LET source_value == get_yaml_value(fs, Head(entries), source_license, io)
             doc_value    == get_yaml_value(fs, Head(entries), documentation_license, io)
         IN  IF source_value.panic \/ doc_value.panic
             THEN [panic |-> TRUE, vals |-> <<>>]
             ELSE LET rest == read_entries(fs, Tail(entries), io)
                  IN  [panic |-> rest.panic,
                       vals  |-> <<[source_value |-> source_value.value,
                                    doc_value    |-> doc_value.value]>> \o rest.vals]

\* amalgamate_licenses(target_dir): always returns a fresh SROutput
amalgamate_licenses(ds, lk, fs, target_dir, io) ==
    Bind(read_entries(fs, get_sr_paths(ds, lk, fs, target_dir), io), LAMBDA read :
        IF read.panic
        THEN [panic |-> TRUE, files |-> fs, writes |-> <<>>, output |-> NewOutput]
        ELSE Bind(collect_licenses(read.vals, <<>>, <<>>), LAMBDA lists :
             Bind(update_json_value(fs, Append(target_dir, package_json), license,
                                    license_str(lists.source_licenses, lists.doc_licenses),
                                    io), LAMBDA upd :
                 [panic |-> upd.panic, files |-> upd.files, writes |-> upd.writes,
                  output |-> NewOutput])))

-----------------------------------------------------------------------------
(* Specification SpecText: the four text primitives applied to one file    *)

MaxLines == 2    \* lines in the file the primitives are applied to
MaxCalls == 1    \* calls made in one run

\* the two files the primitives are applied to: a manifest and a marker
ManifestFile == <<package_json>>
MarkerFile   == <<dot_sr>>

\* a value with a colon in it
ColonValue == <<"L", ":", "2">>

\* the lines a manifest is made of: well-formed lines, a license line whose
\* value is empty, one whose value has a colon in it, and a line that holds
\* the word license and no colon (a member of an array of keywords)
JsonLines ==
    { JsonLine(name_key, <<"t", "o", "p">>),
      JsonLine(license, MIT),
      JsonLine(license, NoValue),
      JsonLine(license, ColonValue),
      <<" ", " ">> \o Quote \o license \o Quote }

\* the lines a marker is made of; the last one is a comment that names a key
\* and has no colon
YamlLines ==
    { YamlLine(source_license, MIT) \o <<",">>,
      YamlLine(documentation_license, CC0),
      YamlLine(documentation_license, NoValue),
      YamlLine(documentation_license, ColonValue),
      <<"#", " ">> \o source_license }

JsonKeys   == {license, name_key}
YamlKeys   == {source_license, documentation_license}
TextValues == {GPL, CC0}

NoCall == [op |-> "none", n |-> 0]

\* one of the two files exists, with at most MaxLines lines
TextInit ==
    /\ dirs = {<<>>}
    /\ links = {}
    /\ files \in {ManifestFile :> TextOf(ls) : ls \in SeqsUpTo(JsonLines, MaxLines)}
                 \cup {MarkerFile :> TextOf(ls) : ls \in SeqsUpTo(YamlLines, MaxLines)}
    /\ output = NewOutput
    /\ call = NoCall
    /\ pre = files
    /\ writes = <<>>
    /\ ret = NoValue
    /\ input = <<>>
    /\ panicked = FALSE

TextCall(op, file, key, value, io) ==
    [op |-> op, file |-> file, key |-> key, value |-> value, io |-> io, n |-> call.n + 1]

GetJsonValue ==
    /\ ~panicked
    /\ call.n < MaxCalls
    /\ \E key \in JsonKeys, io \in {"ok", "read_fails"} :
          \E r \in {get_json_value(files, ManifestFile, key, io)} :
              /\ call' = TextCall("get_json_value", ManifestFile, key, NoValue, io)
              /\ ret' = r.value
              /\ panicked' = r.panic
    /\ pre' = files
    /\ writes' = <<>>
    /\ output' = NewOutput
    /\ UNCHANGED <<dirs, links, files, input>>

GetYamlValue ==
    /\ ~panicked
    /\ call.n < MaxCalls
    /\ \E key \in YamlKeys, io \in {"ok", "read_fails"} :
          \E r \in {get_yaml_value(files, MarkerFile, key, io)} :
              /\ call' = TextCall("get_yaml_value", MarkerFile, key, NoValue, io)
              /\ ret' = r.value
              /\ panicked' = r.panic
    /\ pre' = files
    /\ writes' = <<>>
    /\ output' = NewOutput
    /\ UNCHANGED <<dirs, links, files, input>>

UpdateJsonValue ==
    /\ ~panicked
    /\ call.n < MaxCalls
    /\ \E key \in JsonKeys, value \in TextValues, io \in IoOutcomes :
          \E r \in {update_json_value(files, ManifestFile, key, value, io)} :
              /\ call' = TextCall("update_json_value", ManifestFile, key, value, io)
              /\ files' = r.files
              /\ writes' = r.writes
              /\ panicked' = r.panic
    /\ pre' = files
    /\ ret' = NoValue
    /\ output' = NewOutput
    /\ UNCHANGED <<dirs, links, input>>

UpdateYamlValue ==
    /\ ~panicked
    /\ call.n < MaxCalls
    /\ \E key \in YamlKeys, value \in TextValues, io \in IoOutcomes :
          \E r \in {update_yaml_value(files, MarkerFile, key, value, io)} :
              /\ call' = TextCall("update_yaml_value", MarkerFile, key, value, io)
              /\ files' = r.files
              /\ writes' = r.writes
              /\ panicked' = r.panic
              /\ output' = r.output
    /\ pre' = files
    /\ ret' = NoValue
    /\ UNCHANGED <<dirs, links, input>>

TextNext == GetJsonValue \/ GetYamlValue \/ UpdateJsonValue \/ UpdateYamlValue

SpecText == TextInit /\ [][TextNext]_vars

-----------------------------------------------------------------------------
(* Claims about the text primitives (under SpecText)                       *)

\* some line of the text contains the key
HasLineFor(text, key) == \E i \in DOMAIN lines(text) : contains(lines(text)[i], key)

\* the last call was an update of a file that existed
UpdateOfExistingFile ==
    /\ call.op \in {"update_json_value", "update_yaml_value"}
    /\ call.file \in DOMAIN pre

\* what a read of the updated key returns from the file as it is now
ReadBack ==
    IF call.op = "update_json_value"
    THEN get_json_value(files, call.file, call.key, "ok")
    ELSE get_yaml_value(files, call.file, call.key, "ok")

\* C8: round trip.  After a single update of key K to value V that completed
\* on a file with a line for K, reading K from the same file returns exactly
\* V, whatever the line's previous value was.
C8_RoundTrip ==
    ( /\ UpdateOfExistingFile
      /\ HasLineFor(pre[call.file], call.key)
      /\ ~panicked
      /\ output.status = 0 )
    => (~ReadBack.panic /\ ReadBack.value = call.value)

\* C10: when no line of the file contains the key (and the file could be
\* read), an update performs no write, leaves the file as it was, and is not
\* an error: no abort, and status 0.
C10_NoKeyNoWrite ==
    ( /\ UpdateOfExistingFile
      /\ ~HasLineFor(pre[call.file], call.key)
      /\ call.io # "read_fails" )
    => ( /\ writes = <<>>
         /\ files = pre
         /\ ~panicked
         /\ output.status = 0 )

\* C10 witness: update_yaml_value has returned on a marker with lines none of
\* which contains the key
C10_Witness ==
    /\ call.op = "update_yaml_value"
    /\ call.file \in DOMAIN pre
    /\ pre[call.file] # <<>>
    /\ ~HasLineFor(pre[call.file], call.key)
    /\ call.io = "ok"

\* the last call was a read of a file that existed
ReadOfExistingFile ==
    /\ call.op \in {"get_json_value", "get_yaml_value"}
    /\ call.file \in DOMAIN pre

\* the lines of the file the last call was made on, as they were before it
LinesBefore == lines(pre[call.file])

\* the indices of the lines that contain the key of the last call
MatchingLines == {i \in DOMAIN LinesBefore : contains(LinesBefore[i], call.key)}

\* the value the primitive of the last call extracts from one line
ValueOfLine(line) ==
    IF call.op \in {"get_json_value", "update_json_value"}
    THEN json_part_value(split(line, ":"))
    ELSE yaml_part_value(split(line, ":"))

\* C11: a read of key K that returns has scanned every line (each line that
\* contains K has a part after a colon): when several lines contain K the
\* value of the last such line is returned, and when no line contains K the
\* empty string is returned.
C11_LastMatchWins ==
    (ReadOfExistingFile /\ ~panicked) =>
        /\ \A i \in MatchingLines : Len(split(LinesBefore[i], ":")) >= 2
        /\ IF MatchingLines = {} THEN ret = <<>>
           ELSE LET last == CHOOSE i \in MatchingLines : \A j \in MatchingLines : j <= i
                IN  ret = ValueOfLine(LinesBefore[last])

\* C11 witness: get_json_value has returned on a manifest with two lines that
\* contain the key and hold different values, and has returned the second
C11_Witness ==
    /\ call.op = "get_json_value"
    /\ call.file \in DOMAIN pre
    /\ ~panicked
    /\ MatchingLines = {1, 2}
    /\ ValueOfLine(LinesBefore[1]) # ValueOfLine(LinesBefore[2])
    /\ ret = ValueOfLine(LinesBefore[2])

\* the text of a line after its first colon
AfterFirstColon(line) == SubSeq(line, NextMatch(line, <<":">>, 1) + 1, Len(line))

\* text without a comma at its end
WithoutTrailingComma(text) ==
    IF text # <<>> /\ text[Len(text)] = "," THEN SubSeq(text, 1, Len(text) - 1) ELSE text

\* text without a double quote at its start and at its end
WithoutEndQuotes(text) ==
    LET a == IF text # <<>> /\ text[1] = "\"" THEN Tail(text) ELSE text
    IN  IF a # <<>> /\ a[Len(a)] = "\"" THEN SubSeq(a, 1, Len(a) - 1) ELSE a

\* everything after the first colon of a line, trimmed, with the trailing
\* comma and the enclosing double quotes taken off
WholeValue(line) ==
    trim(WithoutEndQuotes(trim(WithoutTrailingComma(trim(AfterFirstColon(line))))))

\* C12: for a line containing the key, the value a read extracts is
\* everything after the first ':' of the line (quotes, trailing comma and
\* white space stripped), so a value that itself contains ':' is returned
\* whole.
C12_WholeValueAfterFirstColon ==
    (ReadOfExistingFile /\ ~panicked /\ MatchingLines # {}) =>
        LET last == CHOOSE i \in MatchingLines : \A j \in MatchingLines : j <= i
        IN  ret = WholeValue(LinesBefore[last])

\* the line an update makes of a line that contains the key: the line's
\* current value replaced by the new value
UpdatedLine(line) == replace(line, ValueOfLine(line), call.value)

\* C13: when several lines of the file contain the key, a completed update
\* has transformed each of them: in the rewritten file every line that
\* contained the key has its current value replaced by the new value, and
\* the other lines are as they were.
C13_EveryMatchingLineUpdated ==
    ( /\ UpdateOfExistingFile
      /\ ~panicked
      /\ output.status = 0
      /\ MatchingLines # {} )
    => LET after == lines(files[call.file])
       IN  /\ Len(after) = Len(LinesBefore)
           /\ \A i \in DOMAIN LinesBefore :
                 after[i] = IF i \in MatchingLines THEN UpdatedLine(LinesBefore[i])
                            ELSE LinesBefore[i]

\* C15: an update of a key in a file that does not exist returns an error to
\* the caller (no abort, a status other than 0) and creates no file, for
\* update_yaml_value and for update_json_value.
C15_UpdateOfMissingFileFails ==
    ( /\ call.op \in {"update_json_value", "update_yaml_value"}
      /\ call.file \notin DOMAIN pre )
    => ( /\ ~panicked
         /\ output.status # 0
         /\ files = pre )

\* C16: a read of a key from a file that does not exist gives the caller an
\* error outcome (no abort, a status other than 0) and has no side effect.
C16_ReadOfMissingFileFails ==
    ( /\ call.op \in {"get_json_value", "get_yaml_value"}
      /\ call.file \notin DOMAIN pre )
    => ( /\ ~panicked
         /\ output.status # 0
         /\ files = pre )

\* C30: the read and update primitives are total over file contents: for an
\* existing file with any lines, a malformed line that contains the key but
\* no colon included, get_json_value, get_yaml_value, update_json_value and
\* update_yaml_value complete and return normally instead of aborting.
C30_PrimitivesAreTotal ==
    ( /\ call.op \in {"get_json_value", "get_yaml_value",
                      "update_json_value", "update_yaml_value"}
      /\ call.file \in DOMAIN pre
      /\ call.io = "ok" )
    => ~panicked

-----------------------------------------------------------------------------
(* Specification SpecTerms: the dedup loop and the expression builder of   *)
(* amalgamate_licenses applied to the values of a walk                     *)

MaxMarkers == 4    \* markers in the walk handed to the dedup loop
MaxTerms   == 2    \* terms in each list handed to the expression builder

SourceValues == {MIT, GPL, Unlicense}
DocValues    == {MIT, CC0}
TermValues   == {MIT, CC0, NoValue}

\* the sequences of at most n elements of S without a repeated element
DistinctSeqsUpTo(S, n) ==
    {q \in SeqsUpTo(S, n) : \A i, j \in DOMAIN q : i # j => q[i] # q[j]}

\* the values read from the markers of a walk, or two term lists
TermsInit ==
    /\ dirs = {<<>>}
    /\ links = {}
    /\ files = <<>>
    /\ output = NewOutput
    /\ call = NoCall
    /\ pre = files
    /\ writes = <<>>
    /\ ret = NoValue
    /\ panicked = FALSE
    /\ input \in
         {[kind |-> "vals", vals |-> v] :
             v \in SeqsUpTo([source_value : SourceValues, doc_value : DocValues], MaxMarkers)}
         \cup
         {[kind |-> "lists", source_licenses |-> a, doc_licenses |-> b] :
             a \in DistinctSeqsUpTo(TermValues, MaxTerms),
             b \in DistinctSeqsUpTo(TermValues, MaxTerms)}

\* the loop of amalgamate_licenses over the entries
CollectLicenses ==
    /\ input.kind = "vals"
    /\ call.op = "none"
    /\ ret' = collect_licenses(input.vals, <<>>, <<>>)
    /\ call' = [op |-> "collect_licenses", n |-> call.n + 1]
    /\ UNCHANGED <<dirs, links, files, output, pre, writes, input, panicked>>

\* the construction of the license string from the two lists: the lists the
\* loop has produced, or the lists given
BuildLicenseStr ==
    /\ \/ input.kind = "lists" /\ call.op = "none"
       \/ call.op = "collect_licenses"
    /\ LET lists == IF input.kind = "lists" THEN input ELSE ret
       IN  ret' = [source_licenses |-> lists.source_licenses,
                   doc_licenses    |-> lists.doc_licenses,
                   license_str     |-> license_str(lists.source_licenses, lists.doc_licenses)]
    /\ call' = [op |-> "license_str", n |-> call.n + 1]
    /\ UNCHANGED <<dirs, links, files, output, pre, writes, input, panicked>>

TermsNext == CollectLicenses \/ BuildLicenseStr

SpecTerms == TermsInit /\ [][TermsNext]_vars

-----------------------------------------------------------------------------
(* Claims about the term lists and the expression (under SpecTerms)        *)

\* the position at which value v first occurs in q
FirstIndex(q, v) == CHOOSE i \in DOMAIN q : q[i] = v /\ \A j \in 1..(i - 1) : q[j] # v

\* list holds every value of q exactly once, in the order of first appearance
IsFirstSeenOrder(list, q) ==
    /\ \A i, j \in DOMAIN list : i # j => list[i] # list[j]
    /\ {list[i] : i \in DOMAIN list} = {q[i] : i \in DOMAIN q}
    /\ \A i, j \in DOMAIN list :
          i < j => FirstIndex(q, list[i]) < FirstIndex(q, list[j])

SourcesRead == [i \in DOMAIN input.vals |-> input.vals[i].source_value]
DocsRead    == [i \in DOMAIN input.vals |-> input.vals[i].doc_value]

\* C6: each category's term list contains no value twice and keeps the values
\* in the order of their first appearance in the walk; the two lists are
\* deduplicated independently of each other, so one marker with the same
\* source and documentation license L yields (L AND L).
C6_DedupFirstSeen ==
    /\ call.op = "collect_licenses" =>
          /\ IsFirstSeenOrder(ret.source_licenses, SourcesRead)
          /\ IsFirstSeenOrder(ret.doc_licenses, DocsRead)
    /\ ( /\ call.op = "license_str"
         /\ input.kind = "vals"
         /\ Len(input.vals) = 1
         /\ input.vals[1].source_value = input.vals[1].doc_value )
       => ret.license_str =
             <<"(">> \o input.vals[1].source_value \o AND \o input.vals[1].doc_value \o <<")">>

\* C6 witness: source licenses A, B, A, C were read and [A, B, C] was produced
C6_Witness ==
    /\ call.op = "collect_licenses"
    /\ Len(input.vals) = 4
    /\ SourcesRead[1] = SourcesRead[3]
    /\ Cardinality({SourcesRead[1], SourcesRead[2], SourcesRead[4]}) = 3
    /\ ret.source_licenses = <<SourcesRead[1], SourcesRead[2], SourcesRead[4]>>

\* the terms joined by " AND "
RECURSIVE JoinTerms(_)
JoinTerms(terms) ==
    IF terms = <<>> THEN <<>>
    ELSE IF Len(terms) = 1 THEN terms[1]
    ELSE terms[1] \o AND \o JoinTerms(Tail(terms))

CountMatches(s, p) == Cardinality({i \in 1..Len(s) : MatchAt(s, p, i)})

\* C7: the expression is wrapped in exactly one pair of parentheses, has
\* exactly one " AND " between any two adjacent terms, and has the junction
\* between the last source term and the first documentation term only if both
\* lists are non-empty: (X AND Y) for one term each, (X) for one source term
\* and no documentation term.
C7_ExpressionShape ==
    call.op = "license_str" =>
        LET terms == ret.source_licenses \o ret.doc_licenses
            expr  == ret.license_str
        IN  /\ expr = <<"(">> \o JoinTerms(terms) \o <<")">>
            /\ Head(expr) = "(" /\ expr[Len(expr)] = ")"
            /\ CountMatches(expr, <<"(">>) = 1
            /\ CountMatches(expr, <<")">>) = 1
            /\ CountMatches(expr, AND) = (IF terms = <<>> THEN 0 ELSE Len(terms) - 1)

\* C7 witness: one source term X and no documentation term gave (X)
C7_Witness ==
    /\ call.op = "license_str"
    /\ input.kind = "lists"
    /\ Len(ret.source_licenses) = 1
    /\ ret.doc_licenses = <<>>
    /\ ret.license_str = <<"(">> \o ret.source_licenses[1] \o <<")">>

-----------------------------------------------------------------------------
(* Specification SpecWalk: get_sr_paths applied to a directory tree        *)

MaxDirs  == 3    \* directories below the root of the tree
MaxLinks == 1    \* directories of the tree that are symbolic links

\* the names the directories of the tree are given
WalkNames == {<<"a">>, <<"a", "-", "b">>}

\* the trees with at most n directories below the root <<>>
RECURSIVE WalkTrees(_)
WalkTrees(n) ==
    IF n = 0 THEN {{<<>>}}
    ELSE LET smaller == WalkTrees(n - 1)
         IN  smaller \cup
             UNION {{T \cup {Append(d, nm)} : d \in T, nm \in WalkNames} : T \in smaller}

\* a tree, some of its directories holding a marker, at most MaxLinks of them
\* being symbolic links, and a file of another name in the root
WalkInit ==
    /\ dirs \in WalkTrees(MaxDirs)
    /\ links \in {L \in SUBSET (dirs \ {<<>>}) : Cardinality(L) <= MaxLinks}
    /\ \E marked \in SUBSET dirs :
          files = [p \in {Append(d, dot_sr) : d \in marked} \cup {<<package_json>>} |-> <<>>]
    /\ output = NewOutput
    /\ call = NoCall
    /\ pre = files
    /\ writes = <<>>
    /\ ret = NoValue
    /\ input = <<>>
    /\ panicked = FALSE

\* get_sr_paths(target_dir) for a directory of the tree
GetSrPaths ==
    /\ call.op = "none"
    /\ \E target_dir \in dirs \ links :
          /\ ret' = get_sr_paths(dirs, links, files, target_dir)
          /\ input' = target_dir
    /\ call' = [op |-> "get_sr_paths", n |-> call.n + 1]
    /\ UNCHANGED <<dirs, links, files, output, pre, writes, panicked>>

\* get_level(target_dir): parent_file is built from target_dir as current_file is
get_level(ds, fs, target_dir) ==
    LET current_file == Append(target_dir, dot_sr)
        parent_file  == Append(target_dir, dot_sr)
        found(f)     == f \in ds \/ f \in DOMAIN fs
    IN  IF ~found(parent_file) /\ ~found(current_file) THEN 0
        ELSE IF ~found(parent_file) /\ found(current_file) THEN 1
        ELSE 2

\* get_level(target_dir) for a directory of the tree
GetLevel ==
    /\ call.op = "none"
    /\ \E target_dir \in dirs :
          /\ ret' = get_level(dirs, files, target_dir)
          /\ input' = target_dir
    /\ call' = [op |-> "get_level", n |-> call.n + 1]
    /\ UNCHANGED <<dirs, links, files, output, pre, writes, panicked>>

WalkNext ==
    \/ GetSrPaths
    \/ GetLevel

SpecWalk == WalkInit /\ [][WalkNext]_vars

-----------------------------------------------------------------------------
(* Claims about the walk (under SpecWalk)                                  *)

\* path p lies under directory d
IsUnder(p, d) == Len(p) > Len(d) /\ SubSeq(p, 1, Len(d)) = d

\* the directory that holds the file p
DirOf(p) == SubSeq(p, 1, Len(p) - 1)

\* C4: the marker paths returned by get_sr_paths are sorted ascending by their
\* string form, for every tree and every choice of directory names; in
\* particular a component's own marker precedes the markers nested under it.
C4_SortedByPathString ==
    call.op = "get_sr_paths" =>
        /\ \A i, j \in DOMAIN ret :
              i < j => StrLess(PathString(ret[i]), PathString(ret[j]))
        /\ \A i, j \in DOMAIN ret :
              IsUnder(ret[j], DirOf(ret[i])) /\ i # j => i < j

\* the files named .sr under target_dir that are reached without passing a
\* symbolic link, at most max_depth below target_dir
MarkersUnder(target_dir) ==
    {p \in DOMAIN files :
        /\ p[Len(p)] = dot_sr
        /\ IsUnder(p, target_dir)
        /\ Len(p) - Len(target_dir) <= max_depth
        /\ \A k \in (Len(target_dir) + 1)..(Len(p) - 1) : SubSeq(p, 1, k) \notin links}

\* C5: get_sr_paths(root) returns exactly the files named .sr under root, the
\* root's own marker included, at any nesting depth, each exactly once, and
\* never a path reached through a symbolic link.
C5_ExactlyTheMarkers ==
    call.op = "get_sr_paths" =>
        /\ {ret[i] : i \in DOMAIN ret} = MarkersUnder(input)
        /\ \A i, j \in DOMAIN ret : i # j => ret[i] # ret[j]

\* C5 witness: the root's own marker and a nested one were returned, and a
\* marker beneath a symbolic link was left out
C5_Witness ==
    /\ call.op = "get_sr_paths"
    /\ Append(input, dot_sr) \in {ret[i] : i \in DOMAIN ret}
    /\ \E i \in DOMAIN ret : Len(ret[i]) > Len(input) + 1
    /\ \E l \in links : IsUnder(l, input) /\ Append(l, dot_sr) \in DOMAIN files

\* directory d holds a marker file
HoldsMarker(d) == Append(d, dot_sr) \in DOMAIN files

\* the parent directory of d holds a marker file (the root of the tree stands
\* in a directory without one)
ParentHoldsMarker(d) == d # <<>> /\ HoldsMarker(DirOf(d))

\* C22: get_level(target_dir) returns 0 when neither target_dir nor its parent
\* holds a marker file, 1 when target_dir holds a marker file and its parent
\* does not, and 2 when the parent directory holds a marker file.
C22_LevelOfDirectory ==
    call.op = "get_level" =>
        ret = IF ParentHoldsMarker(input) THEN 2
              ELSE IF HoldsMarker(input) THEN 1
              ELSE 0

-----------------------------------------------------------------------------
(* Specification SpecAmal: amalgamate_licenses applied to a component tree *)

MaxComponents    == 2    \* components of the tree, each nested in the one before
MaxAmalgamations == 2    \* successive calls of amalgamate_licenses

version_key      == <<"v", "e", "r", "s", "i", "o", "n">>
version_value    == <<"1", ".", "0", ".", "0">>
description_key  == <<"d", "e", "s", "c", "r", "i", "p", "t", "i", "o", "n">>
description_text == <<"S", "l", "i", "d", "e", "r", "u", "l", "e", " ", "D", "O", "F", " ", "c", "o", "m", "p", "o", "n", "e", "n", "t", ".">>
author_key       == <<"a", "u", "t", "h", "o", "r">>
author_text      == <<"l", "i", "c", "e", "n", "s", "e", "-", "p", "l", "a", "t", "e", " ", "t", "e", "a", "m">>
dependencies_open  == <<" ", " ", "\"", "d", "e", "p", "e", "n", "d", "e", "n", "c", "i", "e", "s", "\"", ":", " ", "{">>
dependencies_close == <<" ", " ", "}">>
top == <<"t", "o", "p">>
sub == <<"s", "u", "b">>

\* the lines package_json_template renders for a name and a license
package_json_lines(name, license_value) ==
    << <<"{">>,
       JsonLine(name_key, name),
       JsonLine(version_key, version_value),
       JsonLine(description_key, description_text),
       JsonLine(license, license_value),
       dependencies_open,
       dependencies_close,
       <<"}">> >>

package_json_template(name, license_value) == TextOf(package_json_lines(name, license_value))

\* the text sr_file_template renders for the two licenses
sr_file_template(source_value, doc_value) ==
    TextOf(<< YamlLine(source_license, source_value) \o <<",">>,
              YamlLine(documentation_license, doc_value) >>)

\* q with x put in before position i
InsertAt(q, i, x) == SubSeq(q, 1, i - 1) \o <<x>> \o SubSeq(q, i, Len(q))

\* q without the element at position i
RemoveAt(q, i) == SubSeq(q, 1, i - 1) \o SubSeq(q, i + 1, Len(q))

\* the manifests of the root: as rendered with a license, as rendered with an
\* empty license, with an author member after the license member, and
\* without a license member
RootManifests ==
    { package_json_template(top, MIT),
      package_json_template(top, NoValue),
      TextOf(InsertAt(package_json_lines(top, MIT), 6, JsonLine(author_key, author_text))),
      TextOf(RemoveAt(package_json_lines(top, MIT), 5)) }

AmalSources == {MIT, Unlicense}
AmalDocs    == {CC0, CCBY}

\* the markers of the tree: as sr_file_template renders them for two
\* licenses, and two that lack one of the two keys
AmalLevels ==
    [source_value : AmalSources, doc_value : AmalDocs, keys : {"both"}]
    \cup {[source_value |-> NoValue, doc_value |-> CC0, keys |-> "doc"],
          [source_value |-> MIT, doc_value |-> NoValue, keys |-> "source"]}

\* the text of the marker of one level
MarkerText(level) ==
    IF level.keys = "both" THEN sr_file_template(level.source_value, level.doc_value)
    ELSE IF level.keys = "doc"
    THEN TextOf(<<YamlLine(documentation_license, level.doc_value)>>)
    ELSE TextOf(<<YamlLine(source_license, level.source_value) \o <<",">> >>)

\* the directory of the k-th component: the root, then each one in the
\* components directory of the one before
RECURSIVE ComponentDir(_)
ComponentDir(k) == IF k <= 1 THEN <<>> ELSE ComponentDir(k - 1) \o <<components, sub>>

\* the files of a tree whose k-th component has the licenses levels[k]
TreeFiles(levels, manifest) ==
    LET at == [k \in DOMAIN levels |-> ComponentDir(k)]
        markers   == {Append(at[k], dot_sr) : k \in DOMAIN levels}
        manifests == {Append(at[k], package_json) : k \in DOMAIN levels} \cup {<<package_json>>}
        level(p)  == CHOOSE k \in DOMAIN levels : at[k] = SubSeq(p, 1, Len(p) - 1)
    IN  [p \in markers \cup manifests |->
            IF p = <<package_json>> THEN manifest
            ELSE IF p \in markers
                 THEN MarkerText(levels[level(p)])
                 ELSE package_json_template(sub, levels[level(p)].source_value)]

TreeDirs(levels) ==
    {<<>>} \cup UNION {{ComponentDir(k), Append(ComponentDir(k - 1), components)} :
                          k \in 2..Len(levels)}

\* a tree of nested components, a manifest of the root, and the component
\* the calls are made on
AmalInit ==
    /\ \E levels \in SeqsUpTo(AmalLevels, MaxComponents),
          manifest \in RootManifests :
          /\ dirs = TreeDirs(levels)
          /\ files = TreeFiles(levels, manifest)
    /\ input = <<>>
    /\ links = {}
    /\ output = NewOutput
    /\ call = NoCall
    /\ pre = files
    /\ writes = <<>>
    /\ ret = NoValue
    /\ panicked = FALSE

\* amalgamate_licenses(root)
AmalgamateLicenses ==
    /\ ~panicked
    /\ call.n < MaxAmalgamations
    /\ \E io \in IoOutcomes :
          \E r \in {amalgamate_licenses(dirs, links, files, input, io)} :
              /\ files' = r.files
              /\ writes' = r.writes
              /\ output' = r.output
              /\ panicked' = r.panic
              /\ call' = [op |-> "amalgamate_licenses", io |-> io, n |-> call.n + 1]
    /\ pre' = files
    /\ UNCHANGED <<dirs, links, ret, input>>

AmalNext == AmalgamateLicenses

SpecAmal == AmalInit /\ [][AmalNext]_vars

-----------------------------------------------------------------------------
(* Claims about amalgamate_licenses (under SpecAmal)                       *)

RootManifest == Append(input, package_json)

\* amalgamate_licenses has returned
Amalgamated == call.op = "amalgamate_licenses" /\ ~panicked

\* the values of one key in the markers under the root, in walk order, as
\* they were before the call
MarkerValues(key) ==
    LET entries == get_sr_paths(dirs, links, pre, input)
    IN  [i \in DOMAIN entries |-> get_yaml_value(pre, entries[i], key, "ok").value]

\* the distinct values of q in the order of first appearance
RECURSIVE Distinct(_)
Distinct(q) ==
    IF q = <<>> THEN <<>>
    ELSE LET front == Distinct(SubSeq(q, 1, Len(q) - 1))
         IN  IF \E i \in DOMAIN front : front[i] = q[Len(q)] THEN front
             ELSE Append(front, q[Len(q)])

ExpectedExpression ==
    <<"(">> \o JoinTerms(Distinct(MarkerValues(source_license))
                         \o Distinct(MarkerValues(documentation_license))) \o <<")">>

\* C2: after amalgamate_licenses(root) on a root whose manifest has a license
\* line, reading the manifest's license gives "(" then the distinct source
\* licenses of the markers in walk order, then the distinct documentation
\* licenses in walk order, joined by " AND ", then ")", whatever value the
\* license line held before the call.
C2_ManifestHoldsExpression ==
    ( /\ Amalgamated
      /\ RootManifest \in DOMAIN pre
      /\ HasLineFor(pre[RootManifest], license) )
    => LET read == get_json_value(files, RootManifest, license, "ok")
       IN  ~read.panic /\ read.value = ExpectedExpression

\* C3: idempotence.  A second amalgamate_licenses(root) right after the first
\* leaves every file, the manifest included, byte-identical to what it was
\* after the first, for every initial manifest and marker tree.
C3_Idempotent ==
    (Amalgamated /\ call.n >= 2) => files = pre

\* the text of a line up to its first colon
KeyText(line) == split(line, ":")[1]

\* C9: the only change amalgamate_licenses(root) makes to the filesystem is
\* the value portion of the license line of root's manifest: that line's key
\* text, every other line of the manifest, and every other file are
\* byte-for-byte unchanged.
C9_OnlyLicenseValueChanges ==
    Amalgamated =>
        /\ DOMAIN files = DOMAIN pre
        /\ \A p \in DOMAIN pre : p # RootManifest => files[p] = pre[p]
        /\ RootManifest \in DOMAIN pre =>
              LET before == lines(pre[RootManifest])
                  after  == lines(files[RootManifest])
              IN  /\ Len(after) = Len(before)
                  /\ \A i \in DOMAIN before :
                        IF contains(before[i], Quote \o license \o Quote \o <<":">>)
                        THEN KeyText(after[i]) = KeyText(before[i])
                        ELSE after[i] = before[i]

\* the last call was amalgamate_licenses and an I/O operation of it failed:
\* the first read, or the write of the manifest
AmalgamationIoFailed ==
    /\ call.op = "amalgamate_licenses"
    /\ \/ call.io = "read_fails"
       \/ call.io \in {"write_fails", "write_cut"} /\ writes # <<>>

\* C14: whenever reading a marker or reading or writing the manifest fails,
\* amalgamate_licenses reports a failure outcome to its caller: it returns,
\* and with a status other than 0.
C14_IoFailureReported ==
    AmalgamationIoFailed => (~panicked /\ output.status # 0)

\* the markers under the root, in walk order
MarkersBefore == get_sr_paths(dirs, links, pre, input)

\* the markers among `markers` that have no line for the key
MarkersLacking(markers, key) ==
    {i \in DOMAIN markers : ~HasLineFor(pre[markers[i]], key)}

\* the term lists the loop of amalgamate_licenses builds from the markers
TermLists(markers) ==
    collect_licenses(read_entries(pre, markers, "ok").vals, <<>>, <<>>)

\* the number of empty terms of a list
EmptyTerms(list) == Cardinality({i \in DOMAIN list : list[i] = <<>>})

\* C17: when a marker lacks the source_license or documentation_license key,
\* the value extracted for it is the empty string, the empty string is a term
\* of the category's list exactly once, and amalgamate_licenses returns
\* success; a manifest rendered by the template then holds the expression
\* with the empty term in it.
C17_MissingKeyGivesEmptyTerm ==
    (call.op = "amalgamate_licenses" /\ call.io = "ok") =>
        \A markers \in {MarkersBefore} :
        \A no_source \in {MarkersLacking(markers, source_license)} :
        \A no_doc \in {MarkersLacking(markers, documentation_license)} :
        \A lists \in {TermLists(markers)} :
            /\ \A i \in no_source :
                  get_yaml_value(pre, markers[i], source_license, "ok").value = <<>>
            /\ \A i \in no_doc :
                  get_yaml_value(pre, markers[i], documentation_license, "ok").value = <<>>
            /\ no_source # {} => EmptyTerms(lists.source_licenses) = 1
            /\ no_doc # {} => EmptyTerms(lists.doc_licenses) = 1
            /\ (no_source \cup no_doc) # {}
                  => /\ ~panicked
                     /\ output.status = 0
                     /\ pre[RootManifest] = package_json_template(top, MIT)
                           => get_json_value(files, RootManifest, license, "ok").value
                                  = ExpectedExpression

\* C17 witness: amalgamate_licenses has returned on a tree of two markers, the
\* first without the source_license key and the second with it, and the
\* manifest holds an expression that starts with the empty term
C17_Witness ==
    /\ call.op = "amalgamate_licenses"
    /\ call.io = "ok"
    /\ ~panicked
    /\ pre[RootManifest] = package_json_template(top, MIT)
    /\ contains(files[RootManifest], <<"(">> \o AND)
    /\ \A markers \in {MarkersBefore} :
          Len(markers) = 2 /\ MarkersLacking(markers, source_license) = {1}

\* C18: if the write of the manifest at the end of an amalgamation fails, the
\* failure is surfaced (an abort or a status other than 0) and every file,
\* the manifest included, is as it was before the call.
C18_FailedWriteLeavesManifest ==
    ( /\ call.op = "amalgamate_licenses"
      /\ call.io \in {"write_fails", "write_cut"}
      /\ writes # <<>> )
    => ( /\ panicked \/ output.status # 0
         /\ files = pre )

-----------------------------------------------------------------------------
(* Specification SpecRace: two invocations of amalgamate_licenses on one   *)
(* root, their file operations interleaved, and markers rewritten meanwhile *)

MaxRaceMarkers == 2    \* markers of the tree the invocations work on
MaxChanges     == 1    \* rewrites of a marker made while the invocations run

\* the two invocations
Procs == {1, 2}

\* the licenses a marker is rewritten to
RaceSources == {GPL, Unlicense}

\* the markers of the tree
RaceLevels == [source_value : {MIT}, doc_value : {CC0, CCBY}, keys : {"both"}]

\* The first part of amalgamate_licenses: the walk, the reads of the markers
\* and the construction of license_str.
collected_license_str(ds, lk, fs, target_dir) ==
    Bind(collect_licenses(read_entries(fs, get_sr_paths(ds, lk, fs, target_dir), "ok").vals,
                          <<>>, <<>>),
         LAMBDA lists : license_str(lists.source_licenses, lists.doc_licenses))

\* The read and the loop of update_json_value: the text it is going to write,
\* computed from the contents it has read.
rewritten_contents(contents, key, value) ==
    update_json_loop(contents, lines(contents), key, value, <<>>).new_contents

\* a variant of write_contents that leaves the file alone when it no longer
\* holds the contents that were read
write_contents_if_unchanged(fs, json_file, contents, new_contents) ==
    IF fs[json_file] = contents THEN [fs EXCEPT ![json_file] = new_contents] ELSE fs

\* fs::write(json_file, new_contents): the file holds new_contents, whatever
\* it held and whatever `contents` the invocation had read
write_contents(fs, json_file, contents, new_contents) ==
    [fs EXCEPT ![json_file] = new_contents]

\* the position of an invocation that has not started
NotStarted == [pc |-> "start", license_str |-> <<>>, contents |-> <<>>, new_contents |-> <<>>]

\* a tree of markers with the manifest the template renders; both
\* invocations are about to start on the root
RaceInit ==
    /\ \E levels \in SeqsUpTo(RaceLevels, MaxRaceMarkers) :
          /\ levels # <<>>
          /\ dirs = TreeDirs(levels)
          /\ files = TreeFiles(levels, package_json_template(top, MIT))
    /\ links = {}
    /\ input = [p \in Procs |-> NotStarted]
    /\ ret = [p \in Procs |-> NoValue]
    /\ output = NewOutput
    /\ call = [op |-> "race", n |-> 0]
    /\ pre = files
    /\ writes = <<>>
    /\ panicked = FALSE

\* invocation p walks the tree, reads the markers and builds license_str
CollectLicensesOf(p) ==
    /\ input[p].pc = "start"
    /\ input' = [input EXCEPT ![p].pc = "collected",
                              ![p].license_str = collected_license_str(dirs, links, files, <<>>)]
    /\ UNCHANGED <<dirs, links, files, output, call, pre, writes, ret, panicked>>

\* invocation p, in update_json_value, reads the manifest and computes the
\* contents to write
ReadManifestOf(p) ==
    /\ input[p].pc = "collected"
    /\ input' = [input EXCEPT
                    ![p].pc = "read",
                    ![p].contents = files[<<package_json>>],
                    ![p].new_contents = rewritten_contents(files[<<package_json>>], license,
                                                           input[p].license_str)]
    /\ UNCHANGED <<dirs, links, files, output, call, pre, writes, ret, panicked>>

\* invocation p writes the manifest, if there is a change to write, and
\* returns the output it was built with
WriteManifestOf(p) ==
    /\ input[p].pc = "read"
    /\ IF has_change(input[p].new_contents)
       THEN /\ files' = write_contents(files, <<package_json>>, input[p].contents,
                                       input[p].new_contents)
            /\ writes' = Append(writes, [by |-> p, text |-> input[p].new_contents])
       ELSE UNCHANGED <<files, writes>>
    /\ input' = [input EXCEPT ![p].pc = "done"]
    /\ ret' = [ret EXCEPT ![p] = NewOutput]
    /\ UNCHANGED <<dirs, links, output, call, pre, panicked>>

\* the source license of a marker is rewritten, as change_licenses does it
ChangeMarker ==
    /\ call.n < MaxChanges
    /\ \E marker \in {f \in DOMAIN files : f[Len(f)] = dot_sr}, value \in RaceSources :
          \E u \in {update_yaml_value(files, marker, source_license, value, "ok")} :
              /\ ~u.panic
              /\ files' = u.files
    /\ call' = [call EXCEPT !.n = @ + 1]
    /\ UNCHANGED <<dirs, links, output, pre, writes, ret, input, panicked>>

RaceNext ==
    \/ \E p \in Procs : CollectLicensesOf(p)
    \/ \E p \in Procs : ReadManifestOf(p)
    \/ \E p \in Procs : WriteManifestOf(p)
    \/ ChangeMarker

SpecRace == RaceInit /\ [][RaceNext]_vars

-----------------------------------------------------------------------------
(* Claims about interleaved invocations (under SpecRace)                   *)

\* both invocations have returned
BothReturned == call.op = "race" /\ \A p \in Procs : input[p].pc = "done"

\* C19: the manifest update is an unlocked read-modify-write.  When two
\* invocations that update the same manifest interleave, the manifest ends
\* up with the content of the last write, whatever the other invocation had
\* written, and neither invocation reports anything: both return status 0
\* with empty stdout and stderr.
C19_LastWriterWins ==
    /\ (call.op = "race" /\ writes # <<>>) =>
          files[<<package_json>>] = writes[Len(writes)].text
    /\ BothReturned =>
          /\ ~panicked
          /\ \A p \in Procs : ret[p] = NewOutput

\* C19 witness: a lost update.  A marker was rewritten between the reads of
\* the two invocations; the invocation that had read the new marker wrote
\* first, the other one wrote last, and the manifest holds the expression of
\* the old markers, not the one of the markers as they are.
C19_Witness ==
    /\ BothReturned
    /\ call.n = 1
    /\ Len(writes) = 2
    /\ writes[1].by # writes[2].by
    /\ contains(writes[1].text, collected_license_str(dirs, links, files, <<>>))
    /\ ~contains(files[<<package_json>>], collected_license_str(dirs, links, files, <<>>))
    /\ \A p \in Procs : ret[p].status = 0

-----------------------------------------------------------------------------
(* The filesystem and the generators of a component's files                *)

README_md     == <<"R", "E", "A", "D", "M", "E", ".", "m", "d">>
bom_data_yaml == <<"b", "o", "m", "_", "d", "a", "t", "a", ".", "y", "a", "m", "l">>
gitignore     == <<".", "g", "i", "t", "i", "g", "n", "o", "r", "e">>
dot_git       == <<".", "g", "i", "t">>
dot_ph        == <<".", "p", "h">>
dist          == <<"d", "i", "s", "t">>
docs          == <<"d", "o", "c", "s">>
source        == <<"s", "o", "u", "r", "c", "e">>

\* text a user has put into a file of a directory
own_text == TextOf(<< <<"#", " ", "m", "i", "n", "e">> >>)

\* two messages are the same text (a message is a string, or a tuple of the
\* parts that format! puts together)
SameMessage(a, b) == ToString(a) = ToString(b)

\* the last call has put the message in its stdout, in its stderr
InStdout(note) == \E i \in DOMAIN output.stdout : SameMessage(output.stdout[i], note)

InStderr(note) == \E i \in DOMAIN output.stderr : SameMessage(output.stderr[i], note)

\* the directory that holds p
Parent(p) == SubSeq(p, 1, Len(p) - 1)

\* Path::exists
exists(ds, fs, p) == p \in ds \/ p \in DOMAIN fs

\* p is d or lies beneath it
IsWithin(p, d) == Len(p) >= Len(d) /\ SubSeq(p, 1, Len(d)) = d

\* the files with p holding text
WriteFile(fs, p, text) == [q \in DOMAIN fs \cup {p} |-> IF q = p THEN text ELSE fs[q]]

\* the files outside directory d
FilesOutside(fs, d) == [q \in {q \in DOMAIN fs : ~IsWithin(q, d)} |-> fs[q]]

\* output.status = code; output.stderr.push(msg)
fail(out, code, msg) == [out EXCEPT !.status = code, !.stderr = Append(@, msg)]

push_stdout(out, msg) == [out EXCEPT !.stdout = Append(@, msg)]

push_stderr(out, msg) == [out EXCEPT !.stderr = Append(@, msg)]

\* fs::create_dir(p) inside create_component: the parent must exist and p
\* must not
create_dir(w, p, code, what) ==
    IF Parent(p) \in w.dirs /\ ~exists(w.dirs, w.files, p)
    THEN [w EXCEPT !.dirs = @ \cup {p}]
    ELSE [w EXCEPT !.output = fail(@, code, <<"ERROR: Could not create ", what, " directory: {}">>)]

\* fs::File::create(p): an empty file, truncating one that exists
file_create(w, p, what) ==
    IF Parent(p) \in w.dirs /\ p \notin w.dirs
    THEN [w EXCEPT !.files = WriteFile(@, p, <<>>)]
    ELSE [w EXCEPT !.output =
             fail(@, 21, <<"ERROR: Could not create placeholder file in ", what, " directory: {}">>)]

\* one of the blocks of create_component that create components, dist, docs
\* and source with their placeholder files
create_subdirectory(w, component_dir, dname, code, what) ==
    LET p == Append(component_dir, dname)
    IN  IF ~exists(w.dirs, w.files, p)
        THEN file_create(create_dir(w, p, code, what), Append(p, dot_ph), what)
        ELSE [w EXCEPT !.output =
                 push_stdout(@, <<what, " directory already exists, using existing directory.">>)]

readme_template(name) ==
    TextOf(<< <<"#", " ">> \o name,
              <<"N", "e", "w", " ", "S", "l", "i", "d", "e", "r", "u", "l", "e", " ", "c", "o", "m", "p", "o", "n", "e", "n", "t", ".">>,
              <<>>,
              <<"-", "-", "-">>,
              <<"D", "e", "v", "e", "l", "o", "p", "e", "d", " ", "i", "n", " ", "[", "S", "l", "i", "d", "e", "r", "u", "l", "e", "]", "(", "h", "t", "t", "p", ":", "/", "/", "s", "l", "i", "d", "e", "r", "u", "l", "e", ".", "i", "o", ")", " ", "a", "n", " ", "i", "m", "p", "l", "e", "m", "e", "n", "t", "a", "t", "i", "o", "n", " ", "o", "f", " ", "t", "h", "e", " ", "[", "D", "i", "s", "t", "r", "i", "b", "u", "t", "e", "d", " ", "O", "S", "H", "W", " ", "F", "r", "a", "m", "e", "w", "o", "r", "k", "]", "(", "h", "t", "t", "p", ":", "/", "/", "d", "o", "f", ".", "s", "l", "i", "d", "e", "r", "u", "l", "e", ".", "i", "o", ")", ".">> >>)

bom_data_yaml_template(name) ==
    TextOf(<< <<"#", " ", "B", "i", "l", "l", " ", "o", "f", " ", "M", "a", "t", "e", "r", "i", "a", "l", "s", " ", "D", "a", "t", "a", " ", "f", "o", "r", " ">> \o name,
              <<"p", "a", "r", "t", "s", ":">>,
              <<" ", " ", "c", "o", "m", "p", "o", "n", "e", "n", "t", "_", "1", ":">>,
              <<" ", " ", " ", " ", "o", "p", "t", "i", "o", "n", "s", ":">>,
              <<" ", " ", " ", " ", "-", " ", "s", "p", "e", "c", "i", "f", "i", "c", "_", "c", "o", "m", "p", "o", "n", "e", "n", "t", "_", "v", "a", "r", "i", "a", "t", "i", "o", "n">>,
              <<" ", " ", " ", " ", "d", "e", "f", "a", "u", "l", "t", "_", "o", "p", "t", "i", "o", "n", ":", " ", "0">>,
              <<" ", " ", " ", " ", "q", "u", "a", "n", "t", "i", "t", "y", ":", " ", "1">>,
              <<" ", " ", " ", " ", "q", "u", "a", "n", "t", "i", "t", "y", "_", "u", "n", "i", "t", "s", ":", " ", "p", "a", "r", "t">>,
              <<" ", " ", " ", " ", "n", "a", "m", "e", ":", " ", "S", "a", "m", "p", "l", "e", " ", "C", "o", "m", "p", "o", "n", "e", "n", "t">>,
              <<" ", " ", " ", " ", "n", "o", "t", "e", "s", ":", " ", "'", "'">>,
              <<>>,
              <<"o", "r", "d", "e", "r", ":">>,
              <<" ", " ", "-", "c", "o", "m", "p", "o", "n", "e", "n", "t", "_", "1">> >>)

gitignore_template ==
    TextOf(<< <<"#", " ", "D", "e", "p", "e", "n", "d", "e", "n", "c", "y", " ", "d", "i", "r", "e", "c", "t", "o", "r", "i", "e", "s">>,
              <<"n", "o", "d", "e", "_", "m", "o", "d", "u", "l", "e", "s", "/">>,
              <<>>,
              <<"#", " ", "D", "i", "s", "t", "r", "i", "b", "u", "t", "i", "o", "n", " ", "d", "i", "r", "e", "c", "t", "o", "r", "y">>,
              <<"d", "i", "s", "t", "/">> >>)

\* a variant of generate_file that writes the file whether it exists or not
generate_file_overwriting(w, target_dir, file_name, contents, code, error, note) ==
    [w EXCEPT !.files = IF target_dir \in w.dirs
                        THEN WriteFile(@, Append(target_dir, file_name), contents) ELSE @]

\* the body the generate_* functions share: the file is written only when it
\* does not exist, and fs::write needs the directory to exist; the caller
\* combines the SROutput returned with its own
generate_file(w, target_dir, file_name, contents, code, error, note) ==
    LET p == Append(target_dir, file_name)
        absent == ~exists(w.dirs, w.files, p)
        file_output == IF absent
                       THEN IF target_dir \in w.dirs THEN NewOutput
                            ELSE fail(NewOutput, code, error)
                       ELSE push_stdout(NewOutput, note)
    IN  [w EXCEPT !.files = IF absent /\ target_dir \in w.dirs
                            THEN WriteFile(@, p, contents) ELSE @,
                  !.output = combine_sroutputs(@, file_output)]

generate_readme(w, target_dir, name) ==
    generate_file(w, target_dir, README_md, readme_template(name), 16,
        "Could not write to README.md file: {}",
        "README.md already exists, using existing file and refusing to overwrite.")

generate_bom(w, target_dir, name) ==
    generate_file(w, target_dir, bom_data_yaml, bom_data_yaml_template(name), 17,
        "Could not write to bom_data.yaml: {}",
        "bom_data.yaml already exists, using existing file and refusing to overwrite.")

generate_package_json(w, target_dir, name, license_value) ==
    generate_file(w, target_dir, package_json, package_json_template(name, license_value), 18,
        "Could not write to package.json: {}",
        "package.json already exists, using existing file and refusing to overwrite.")

generate_gitignore(w, target_dir) ==
    generate_file(w, target_dir, gitignore, gitignore_template, 19,
        "Could not write to .gitignore: {}",
        ".gitignore already exists, using existing file and refusing to overwrite.")

generate_dot_file(w, target_dir, source_value, doc_value) ==
    generate_file(w, target_dir, dot_sr, sr_file_template(source_value, doc_value), 20,
        "Could not write to .sr file: {}",
        ".sr already exists, using existing file and refusing to overwrite.")

\* let amal_output = amalgamate_licenses(dir); output = combine_sroutputs(output, amal_output)
amalgamated(w, lk, dir) ==
    Bind(amalgamate_licenses(w.dirs, lk, w.files, dir, "ok"), LAMBDA a :
        [w EXCEPT !.files = a.files,
                  !.output = combine_sroutputs(@, a.output),
                  !.panic = a.panic])

\* the state a call starts from; committed is what the call has committed
\* with git so far
World(ds, fs) ==
    [dirs |-> ds, files |-> fs, output |-> NewOutput, panic |-> FALSE, committed |-> NoValue]

\* a variant of component_dir_of that never looks for the marker of target_dir
component_dir_beside(ds, fs, target_dir, name) == Append(target_dir, name)

\* the directory create_component sets the component up in
component_dir_of(ds, fs, target_dir, name) ==
    IF exists(ds, fs, Append(target_dir, dot_sr))
    THEN target_dir \o <<components, name>>
    ELSE Append(target_dir, name)

\* create_component(target_dir, name, source_license, doc_license)
create_component(ds, lk, fs, target_dir, name, source_value, doc_value) ==
    Bind(component_dir_of(ds, fs, target_dir, name), LAMBDA component_dir :
    Bind(create_dir(World(ds, fs), component_dir, 11, "component"), LAMBDA w1 :
    Bind(create_subdirectory(w1, component_dir, components, 12, "components"), LAMBDA w2 :
    Bind(create_subdirectory(w2, component_dir, dist, 13, "dist"), LAMBDA w3 :
    Bind(create_subdirectory(w3, component_dir, docs, 14, "docs"), LAMBDA w4 :
    Bind(create_subdirectory(w4, component_dir, source, 15, "source"), LAMBDA w5 :
    Bind(generate_readme(w5, component_dir, name), LAMBDA w6 :
    Bind(generate_bom(w6, component_dir, name), LAMBDA w7 :
    Bind(generate_package_json(w7, component_dir, name, source_value), LAMBDA w8 :
    Bind(generate_dot_file(w8, component_dir, source_value, doc_value), LAMBDA w9 :
    Bind(amalgamated(w9, lk, component_dir), LAMBDA w10 :
        [w10 EXCEPT !.output = push_stdout(@, "Finished setting up component.")])))))))))))

\* change_licenses(target_dir, source_license, doc_license)
change_licenses(ds, lk, fs, target_dir, source_value, doc_value) ==
    LET marker == Append(target_dir, dot_sr)
    IN  Bind(update_yaml_value(fs, marker, source_license, source_value, "ok"), LAMBDA u1 :
        IF u1.panic
        THEN [dirs |-> ds, files |-> fs, output |-> u1.output, panic |-> TRUE]
        ELSE Bind(update_yaml_value(u1.files, marker, documentation_license, doc_value, "ok"),
                  LAMBDA u2 :
             Bind([dirs |-> ds, files |-> u2.files,
                   output |-> combine_sroutputs(u1.output, u2.output),
                   panic |-> u2.panic], LAMBDA w :
                 IF w.panic THEN w ELSE amalgamated(w, lk, target_dir))))

-----------------------------------------------------------------------------
(* The package manager and the version control program                     *)

\* what the environment makes of a run of npm: it installs or uninstalls, it
\* exits with an error, or the program cannot be started
NpmOutcomes == {"ok", "fails", "not_found"}

\* what the environment makes of the runs of git: the commands succeed, the
\* push is rejected, or the program cannot be started
GitOutcomes == {"ok", "rejected", "not_found"}

\* what the environment makes of the deletion of a directory tree
RemoveOutcomes == {"ok", "walk_fails", "metadata_fails", "permissions_fail", "delete_fails"}

rem == <<"r", "e", "m">>

\* the address of the repository of a component
RepoUrl(name) == <<"h", "t", "t", "p", "s", ":", "/", "/", "r", "e", "p", "o", ".", "c", "o", "m", "/", "u", "s", "e", "r", "/">> \o name

\* the content of a component as a repository holds it: its tree without the
\* repository data and the directories .gitignore names
PackageOf(ds, fs, component_dir) ==
    LET kept(p) == /\ IsWithin(p, component_dir)
                   /\ \A d \in {dot_git, node_modules, dist} :
                         ~IsWithin(p, Append(component_dir, d))
        rel(p)  == SubSeq(p, Len(component_dir) + 1, Len(p))
    IN  [dirs  |-> {rel(d) : d \in {d \in ds : kept(d)}},
         files |-> [q \in {rel(p) : p \in {p \in DOMAIN fs : kept(p)}} |-> fs[component_dir \o q]]]

\* the names of the packages installed in target_dir
Installed(ds, target_dir) ==
    {d[Len(d)] : d \in {d \in ds : Parent(d) = Append(target_dir, node_modules)}}

\* the members of the dependencies object for a set of package names, in
\* the order of the names
RECURSIVE dependency_lines(_)
dependency_lines(names) ==
    IF names = {} THEN <<>>
    ELSE LET first == CHOOSE a \in names : \A b \in names \ {a} : StrLess(a, b)
             line  == <<" ", " ", " ", " ">> \o Quote \o first \o Quote \o <<":", " ">>
                      \o Quote \o <<"g", "i", "t", "+">> \o RepoUrl(first) \o Quote
         IN  <<IF names = {first} THEN line ELSE line \o <<",">> >>
             \o dependency_lines(names \ {first})

\* npm's --save: the dependencies object of target_dir's manifest lists the
\* installed packages
save_dependencies(ds, fs, target_dir) ==
    LET manifest == Append(target_dir, package_json)
    IN  IF manifest \notin DOMAIN fs THEN fs
        ELSE Bind(lines(fs[manifest]), LAMBDA ls :
             LET opens == {i \in DOMAIN ls : ls[i] = dependencies_open}
             IN  IF opens = {} THEN fs
                 ELSE LET o == CHOOSE i \in opens : TRUE
                          closes == {i \in DOMAIN ls : i > o /\ ls[i] = dependencies_close}
                      IN  IF closes = {} THEN fs
                          ELSE LET c == CHOOSE i \in closes : \A j \in closes : i <= j
                               IN  [fs EXCEPT ![manifest] =
                                      TextOf(SubSeq(ls, 1, o)
                                             \o dependency_lines(Installed(ds, target_dir))
                                             \o SubSeq(ls, c, Len(ls)))])

\* (the messages about npm and git have the program's name in backquotes in
\* the source)
\* npm_sr::npm_install(target_dir, url, cache), the package being what the
\* repository at url holds
npm_install(w, target_dir, package_name, package, npm) ==
    IF npm = "not_found"
    THEN [w EXCEPT !.output = fail(@, 200, "ERROR: npm was not found, please install it.")]
    ELSE IF npm = "fails"
    THEN [w EXCEPT !.output = [push_stderr(push_stdout(@, "<stdout of npm>"), "<stderr of npm>")
                                  EXCEPT !.wrapped_status = 1]]
    ELSE LET base == target_dir \o <<node_modules, package_name>>
         IN  Bind(w.dirs \cup {Append(target_dir, node_modules)}
                         \cup {base \o d : d \in package.dirs}, LAMBDA ds :
             Bind([q \in DOMAIN w.files \cup {base \o f : f \in DOMAIN package.files} |->
                     IF IsWithin(q, base)
                        /\ SubSeq(q, Len(base) + 1, Len(q)) \in DOMAIN package.files
                     THEN package.files[SubSeq(q, Len(base) + 1, Len(q))]
                     ELSE w.files[q]], LAMBDA fs :
                 [w EXCEPT !.dirs = ds,
                           !.files = save_dependencies(ds, fs, target_dir),
                           !.output = push_stdout(
                               push_stdout(@, "Component installed from remote repository."),
                               "<stdout of npm>")]))

\* npm_sr::npm_uninstall(target_dir, name, cache)
npm_uninstall(w, target_dir, name, npm) ==
    IF npm = "not_found"
    THEN [w EXCEPT !.output = fail(@, 200, "ERROR: npm was not found, please install it.")]
    ELSE IF npm = "fails"
    THEN [w EXCEPT !.output = [push_stderr(push_stdout(@, "<stdout of npm>"), "<stderr of npm>")
                                  EXCEPT !.wrapped_status = 1]]
    ELSE LET base == target_dir \o <<node_modules, name>>
         IN  Bind({d \in w.dirs : ~IsWithin(d, base)}, LAMBDA ds :
             Bind(FilesOutside(w.files, base), LAMBDA fs :
                 [w EXCEPT !.dirs = ds,
                           !.files = save_dependencies(ds, fs, target_dir),
                           !.output = push_stdout(
                               push_stdout(@, "Component successfully uninstalled from remote repository."),
                               "<stdout of npm>")]))

\* Option<String>: None, and Some(v)
None == <<>>

Some(v) == <<v>>

https == <<"h", "t", "t", "p", "s">>

\* the file of a repository that holds the URL of its remote `origin`
git_config == <<"c", "o", "n", "f", "i", "g">>

\* add_user_pass_to_https(url, username, password): final_url starts as
\* String::new() and is assigned only when both are given
add_user_pass_to_https(url, username, password) ==
    IF username # None /\ password # None
    THEN replace(url, https \o <<":", "/", "/">>,
                 https \o <<":", "/", "/">> \o username[1] \o <<":">> \o password[1] \o <<"@">>)
    ELSE <<>>

\* the URL upload_component and remote_login hand to git
final_url_of(url, username, password) ==
    IF contains(url, https) THEN add_user_pass_to_https(url, username, password) ELSE url

\* git_sr::git_init(target_dir, url)
git_init(w, target_dir, url, git) ==
    IF git = "not_found"
    THEN [w EXCEPT !.output = fail(@, 106, "ERROR: git was not found, please install: {}")]
    ELSE [w EXCEPT
            !.dirs = @ \cup {Append(target_dir, dot_git)},
            !.files = WriteFile(@, target_dir \o <<dot_git, git_config>>, url),
            !.output = [@ EXCEPT
                !.stderr = @ \o <<"git repository initialized for project.",
                                  "<stderr of git init>",
                                  "<stderr of git remote add>">>,
                !.stdout = @ \o <<"Done initializing git repository for project.">>]]

\* git_sr::git_set_remote_url(target_dir, url)
git_set_remote_url(w, target_dir, url, git) ==
    IF git = "not_found"
    THEN [w EXCEPT !.output = fail(@, 110,
             "ERROR: Unable to change the URL on the component repository: {}")]
    ELSE [w EXCEPT
            !.files = WriteFile(@, target_dir \o <<dot_git, git_config>>, url),
            !.output = push_stderr(push_stdout(@, "<stdout of git remote set-url>"),
                                   "<stderr of git remote set-url>")]

\* git_sr::git_add_and_commit(target_dir, message)
git_add_and_commit(w, target_dir, git) ==
    IF git = "not_found"
    THEN [w EXCEPT !.output = fail(@, 103, "ERROR: Unable to stage changes using git: {}")]
    ELSE [w EXCEPT
            !.committed = PackageOf(w.dirs, w.files, target_dir),
            !.output = [@ EXCEPT
            !.stdout = @ \o <<"<stdout of git add>", "Changes staged using git.",
                              "<stdout of git commit>", "Changes committed using git.",
                              "<stdout of git push>", "Changes pushed using git.">>,
            !.stderr = @ \o <<"<stderr of git add>", "<stderr of git commit>",
                              "<stderr of git push>">>]]

\* a step that starts from a fresh SROutput, whose output the caller then
\* combines with its own
combined(w, step) ==
    Bind(step, LAMBDA s : [s EXCEPT !.output = combine_sroutputs(w.output, s.output)])

fresh(w) == [w EXCEPT !.output = NewOutput]

-----------------------------------------------------------------------------
(* The operations on components                                            *)

\* remove_remote_component(target_dir, name, cache)
remove_remote_component(w, target_dir, name, npm) ==
    Bind(npm_uninstall(fresh(w), target_dir, name, npm), LAMBDA u :
        IF u.output.status # 0 \/ u.output.wrapped_status # 0
        THEN [u EXCEPT !.output = push_stderr(@, "ERROR: Component was not successfully removed")]
        ELSE [u EXCEPT !.output = push_stdout(@, "Component was removed successfully.")])

\* a variant of remove_finish that leaves the manifest as it is
remove_finish_without_amalgamation(v, lk, target_dir, name) ==
    [v EXCEPT !.output = push_stdout(@, <<"Component ", name, " was successfully removed.">>)]

\* the end of remove: the amalgamation and the message
remove_finish(v, lk, target_dir, name) ==
    Bind(amalgamated(fresh(v), lk, target_dir), LAMBDA a :
        [a EXCEPT !.output =
            push_stdout(combine_sroutputs(v.output, a.output),
                        <<"Component ", name, " was successfully removed.">>)])

\* remove(target_dir, name)
remove(w, lk, target_dir, name, rm, npm) ==
    LET component_dir == target_dir \o <<components, name>>
        begun == [fresh(w) EXCEPT !.output =
                     push_stdout(@, <<"Deleting component directory ", name, ".">>)]
    IN  IF exists(w.dirs, w.files, component_dir)
        THEN IF rm = "walk_fails"
             THEN [begun EXCEPT !.output = fail(@, 6,
                     "ERROR: Could not handle entry while walking components directory tree: {}")]
             ELSE IF rm = "metadata_fails"
             THEN [begun EXCEPT !.output = fail(@, 7,
                     "ERROR: Could not get metadata for a .git directory entry: {}")]
             ELSE IF rm = "permissions_fail"
             THEN [begun EXCEPT !.output = fail(@, 8,
                     "ERROR: Failed to set permissions on .git directory: {}")]
             ELSE IF rm = "delete_fails"
             THEN [begun EXCEPT !.output = fail(@, 9,
                     "ERROR: not able to delete component directory: {}")]
             ELSE Bind([begun EXCEPT !.dirs = {d \in @ : ~IsWithin(d, component_dir)},
                                     !.files = FilesOutside(@, component_dir)],
                       LAMBDA deleted : remove_finish(deleted, lk, target_dir, name))
        ELSE Bind(remove_remote_component(w, target_dir, name, npm),
                  LAMBDA removed : remove_finish(removed, lk, target_dir, name))

\* add_remote_component(target_dir, url, cache)
add_remote_component(w, lk, target_dir, package_name, package, npm) ==
    Bind(npm_install(fresh(w), target_dir, package_name, package, npm), LAMBDA i :
    Bind(amalgamated(fresh(i), lk, target_dir), LAMBDA a :
    Bind(combine_sroutputs(i.output, a.output), LAMBDA o :
        [a EXCEPT !.output =
            IF o.status # 0 \/ o.wrapped_status # 0
            THEN push_stderr(o, "ERROR: Remote component was not successfully added")
            ELSE push_stdout(o, "Remote component was added successfully.")])))

\* a variant of upload_component that stages, commits and pushes first
upload_component_commit_first(w, lk, target_dir, url, username, password, git) ==
    Bind(combined(fresh(w), git_add_and_commit(fresh(w), target_dir, git)), LAMBDA d :
    Bind(amalgamated(d, lk, target_dir), LAMBDA a :
    Bind(IF ~exists(a.dirs, a.files, Append(target_dir, dot_git))
         THEN combined(a, git_init(fresh(a), target_dir,
                                   final_url_of(url, username, password), git))
         ELSE a, LAMBDA b :
    Bind(IF ~exists(b.dirs, b.files, Append(target_dir, gitignore))
         THEN generate_gitignore(b, target_dir)
         ELSE b, LAMBDA c :
        [c EXCEPT !.output = push_stdout(@, "Done uploading component.")]))))

\* upload_component(target_dir, message, url, username, password)
upload_component(w, lk, target_dir, url, username, password, git) ==
    Bind(amalgamated(fresh(w), lk, target_dir), LAMBDA a :
        IF a.panic THEN a
        ELSE
    Bind(IF ~exists(a.dirs, a.files, Append(target_dir, dot_git))
         THEN combined(a, git_init(fresh(a), target_dir,
                                   final_url_of(url, username, password), git))
         ELSE a, LAMBDA b :
    Bind(IF ~exists(b.dirs, b.files, Append(target_dir, gitignore))
         THEN generate_gitignore(b, target_dir)
         ELSE b, LAMBDA c :
    Bind(combined(c, git_add_and_commit(fresh(c), target_dir, git)), LAMBDA d :
        [d EXCEPT !.output = push_stdout(@, "Done uploading component.")]))))

\* remote_login(target_dir, url, username, password)
remote_login(w, target_dir, url, username, password, git) ==
    IF ~exists(w.dirs, w.files, Append(target_dir, dot_git))
    THEN combined(fresh(w), git_init(fresh(w), target_dir,
                                     final_url_of(url, username, password), git))
    ELSE combined(fresh(w), git_set_remote_url(fresh(w), target_dir,
                                               final_url_of(url, username, password), git))

\* what the environment makes of a run of git pull: the directory is up to
\* date with the remote repository, the pull ends with a conflict, git waits
\* for a password and prints nothing, or the program cannot be started
PullOutcomes == {"ok", "conflict", "silent", "not_found"}

\* git_sr::git_pull(target_dir)
git_pull(w, target_dir, pull) ==
    IF pull = "not_found"
    THEN [w EXCEPT !.output = fail(@, 100, "ERROR: Pull from remote repository not successful: {}")]
    ELSE IF pull = "silent"
    THEN [w EXCEPT !.output =
             [push_stderr(push_stdout(
                 fail(@, 101, "ERROR: Pull failed, may be waiting for username/password or passphrase."),
                 <<>>), "<stderr of git pull>") EXCEPT !.wrapped_status = 1]]
    ELSE IF pull = "conflict"
    THEN [w EXCEPT !.output =
             [push_stderr(push_stdout(@, "<stdout of git pull>"), "<stderr of git pull>")
                 EXCEPT !.wrapped_status = 1]]
    ELSE [w EXCEPT !.output =
             push_stderr(push_stdout(@, "Already up to date."), "<stderr of git pull>")]

\* update_local_component(target_dir)
update_local_component(w, lk, target_dir, pull) ==
    IF exists(w.dirs, w.files, Append(target_dir, dot_git))
    THEN Bind(git_pull(fresh(w), target_dir, pull), LAMBDA p :
         Bind(amalgamated(p, lk, target_dir), LAMBDA a :
             IF a.panic THEN a
             ELSE IF a.output.status = 0
             THEN [a EXCEPT !.output = push_stdout(@, "Component updated successfully.")]
             ELSE [a EXCEPT !.output = push_stdout(@, "Component not updated successfully.")]))
    ELSE [fresh(w) EXCEPT !.output = fail(@, 1,
            "ERROR: Component is not set up as a repository, cannot update it.")]

\* refactor(target_dir, name, url, username, password), called with the
\* address of the component's repository and without credentials: the
\* package the install finds is what the upload has pushed
refactor(w, lk, target_dir, name, git, rm, npm) ==
    LET component_dir == target_dir \o <<components, name>>
        found == IF git = "ok" \/ npm = "not_found" THEN npm ELSE "fails"
    IN  IF exists(w.dirs, w.files, component_dir)
        THEN Bind(upload_component(w, lk, component_dir, RepoUrl(name), None, None, git),
                  LAMBDA up :
                 IF up.panic THEN up
                 ELSE
             Bind(PackageOf(up.dirs, up.files, component_dir), LAMBDA package :
             Bind(combined(up, remove(up, lk, target_dir, name, rm, npm)), LAMBDA removed :
                 IF removed.panic THEN removed
                 ELSE
             Bind(combined(removed, add_remote_component(removed, lk, target_dir, name,
                                                         package, found)), LAMBDA added :
                 IF added.panic THEN added
                 ELSE
             Bind(combined(added, amalgamated(fresh(added), lk, target_dir)), LAMBDA final :
                 [final EXCEPT !.output = push_stdout(@,
                     "Finished refactoring local component to remote repository.")])))))
        ELSE [fresh(w) EXCEPT !.output = fail(@, 10,
                "ERROR: The component does not exist in the components directory.")]

-----------------------------------------------------------------------------
(* Specification Spec: the operations applied to a project                  *)

MaxOps == 2    \* operations made on the project in one run

ProjectSources == {MIT, GPL}
ProjectDocs    == {CC0}

\* the component a remote repository holds
RemotePackage ==
    Bind(create_component({<<>>}, {}, <<>>, <<>>, rem, Unlicense, CCBY),
         LAMBDA c : PackageOf(c.dirs, c.files, <<rem>>))

\* the component directories of the project: those that hold a marker and are
\* not installed packages
ComponentDirs ==
    {d \in dirs : /\ Append(d, dot_sr) \in DOMAIN files
                  /\ \A i \in DOMAIN d : d[i] # node_modules}

\* a workspace in which the project `top` has been created
Init ==
    /\ \E source_value \in ProjectSources, doc_value \in ProjectDocs :
          \E c \in {create_component({<<>>}, {}, <<>>, <<>>, top, source_value, doc_value)} :
              dirs = c.dirs /\ files = c.files
    /\ links = {}
    /\ output = NewOutput
    /\ call = NoCall
    /\ pre = files
    /\ writes = <<>>
    /\ ret = NoValue
    /\ input = <<>>
    /\ panicked = FALSE

\* the state after a call that has made the filesystem and the output of r
Returned(op, target_dir, name, r) ==
    /\ dirs' = r.dirs
    /\ files' = r.files
    /\ output' = r.output
    /\ panicked' = r.panic
    /\ call' = [op |-> op, target |-> target_dir, name |-> name, n |-> call.n + 1,
                was_local |-> name # NoValue
                              /\ exists(dirs, files, target_dir \o <<components, name>>)]
    /\ pre' = files
    /\ writes' = <<>>
    /\ UNCHANGED <<links, ret, input>>

MayCall == ~panicked /\ call.n < MaxOps

CreateComponent ==
    /\ MayCall
    /\ \E target_dir \in ComponentDirs, source_value \in ProjectSources, doc_value \in ProjectDocs :
          \E r \in {create_component(dirs, links, files, target_dir, sub, source_value, doc_value)} :
              Returned("create_component", target_dir, sub, r)

ChangeLicenses ==
    /\ MayCall
    /\ \E target_dir \in ComponentDirs, source_value \in ProjectSources, doc_value \in ProjectDocs :
          \E r \in {change_licenses(dirs, links, files, target_dir, source_value, doc_value)} :
              Returned("change_licenses", target_dir, NoValue, r)

\* the outcomes the environment can give to the steps a call on
\* target_dir/components/name goes through: the deletion is tried only when
\* the directory exists, and git is run only then
Local(target_dir, name) == exists(dirs, files, target_dir \o <<components, name>>)

Remove ==
    /\ MayCall
    /\ \E target_dir \in ComponentDirs, name \in {sub, rem} :
          \E rm  \in IF Local(target_dir, name) THEN RemoveOutcomes ELSE {"ok"},
             npm \in IF Local(target_dir, name) THEN {"ok"} ELSE NpmOutcomes :
             \E r \in {remove(World(dirs, files), links, target_dir, name, rm, npm)} :
                 Returned("remove", target_dir, name, r)

AddRemoteComponent ==
    /\ MayCall
    /\ \E target_dir \in ComponentDirs, npm \in NpmOutcomes, package \in {RemotePackage} :
          \E r \in {add_remote_component(World(dirs, files), links, target_dir, rem,
                                        package, npm)} :
              Returned("add_remote_component", target_dir, rem, r)

Refactor ==
    /\ MayCall
    /\ \E target_dir \in ComponentDirs :
          \E git \in IF Local(target_dir, sub) THEN GitOutcomes ELSE {"ok"},
             rm  \in IF Local(target_dir, sub) THEN RemoveOutcomes ELSE {"ok"},
             npm \in IF Local(target_dir, sub) THEN NpmOutcomes ELSE {"ok"} :
             \E r \in {refactor(World(dirs, files), links, target_dir, sub, git, rm, npm)} :
                 Returned("refactor", target_dir, sub, r)

Next ==
    \/ CreateComponent
    \/ ChangeLicenses
    \/ Remove
    \/ AddRemoteComponent
    \/ Refactor

Spec == Init /\ [][Next]_vars

-----------------------------------------------------------------------------
(* Claims about the operations (under Spec)                                *)

\* the values of one key in the markers under root, in walk order
MarkerValuesIn(fs, root, key) ==
    LET entries == get_sr_paths(dirs, links, fs, root)
    IN  [i \in DOMAIN entries |-> get_yaml_value(fs, entries[i], key, "ok").value]

\* the license expression of the markers now present under root
ExpressionOf(root) ==
    <<"(">> \o JoinTerms(Distinct(MarkerValuesIn(files, root, source_license))
                         \o Distinct(MarkerValuesIn(files, root, documentation_license)))
            \o <<")">>

MutatingOps ==
    {"create_component", "add_remote_component", "remove", "refactor", "change_licenses"}

\* a mutating operation has completed without an error on a component
\* directory that holds a marker and a manifest
CompletedOnComponent ==
    /\ call.op \in MutatingOps
    /\ ~panicked
    /\ output.status = 0 /\ output.wrapped_status = 0
    /\ Append(call.target, dot_sr) \in DOMAIN files
    /\ Append(call.target, package_json) \in DOMAIN files

\* C1: after create_component, add_remote_component, remove, refactor or
\* change_licenses completes on a component directory D, and after any
\* sequence of them, the license of D's manifest equals the license
\* expression of the markers present in D's directory tree.
C1_ManifestMatchesMarkers ==
    CompletedOnComponent =>
        get_json_value(files, Append(call.target, package_json), license, "ok").value
            = ExpressionOf(call.target)

\* the upload made by the last call has reported a failure: git could not
\* be run
UploadReportedFailure == InStderr("ERROR: Unable to stage changes using git: {}")

\* C26: refactor deletes the local component directory (components/name)
\* only after its upload to the remote repository has succeeded: if
\* upload_component reports a failure, the local component is still present
\* when refactor returns.
C26_DeletesOnlyAfterUpload ==
    (call.op = "refactor" /\ call.was_local /\ UploadReportedFailure) =>
        /\ (call.target \o <<components, call.name>>) \in dirs
        /\ \A p \in DOMAIN pre :
              IsWithin(p, call.target \o <<components, call.name>>) => p \in DOMAIN files

\* an SROutput signals a failure
SignalsFailure(o) == o.status # 0 \/ o.wrapped_status # 0

\* what a sub-step can return: success, an error of its own, and the failure
\* of a program it has run
SubStepOutputs ==
    { NewOutput,
      fail(NewOutput, 5, "ERROR: Could not write to the YAML file: {}"),
      [push_stderr(NewOutput, "<stderr of npm>") EXCEPT !.wrapped_status = 1] }

\* C27: a composite operation's final SROutput signals failure (status or
\* wrapped_status other than 0) whenever any of its sub-steps did:
\* combine_sroutputs(dest, src) never loses a failure indication of either
\* argument, keeps dest's non-zero status, and appends src's stdout and
\* stderr after dest's in order.
C27_CombineKeepsFailures ==
    /\ call.op # "none" =>
       \A src \in SubStepOutputs : \A c \in {combine_sroutputs(output, src)} :
          /\ (SignalsFailure(output) \/ SignalsFailure(src)) => SignalsFailure(c)
          /\ output.status # 0 => c.status = output.status
          /\ c.stdout = output.stdout \o src.stdout
          /\ c.stderr = output.stderr \o src.stderr
    /\ ( /\ call.op = "refactor"
         /\ InStderr("ERROR: Remote component was not successfully added") )
       => SignalsFailure(output)

-----------------------------------------------------------------------------
(* Specification SpecRemove: remove and update_local_component applied to  *)
(* a project with components                                               *)

MaxRemovals == 2    \* calls made on the project in one run

RemoveSources == {MIT, GPL}
RemoveDocs    == {CC0, CCBY}

\* a workspace in which the project top has been created, the component sub
\* has been created in it, the component rem may have been installed in it,
\* and the licenses of top have been amalgamated since; top is a repository
RemoveInit ==
    /\ \E source_value \in RemoveSources, doc_value \in RemoveDocs, installs \in BOOLEAN :
          \E t \in {create_component({<<>>}, {}, <<>>, <<>>, top, MIT, CC0)} :
          \E c \in {create_component(t.dirs, {}, t.files, <<top>>, sub, source_value, doc_value)} :
          \E r \in {IF installs
                    THEN add_remote_component(c, {}, <<top>>, rem, RemotePackage, "ok")
                    ELSE amalgamated(c, {}, <<top>>)} :
              dirs = r.dirs \cup {<<top, dot_git>>} /\ files = r.files
    /\ links = {}
    /\ output = NewOutput
    /\ call = NoCall
    /\ pre = files
    /\ writes = <<>>
    /\ ret = NoValue
    /\ input = <<>>
    /\ panicked = FALSE

\* remove(target_dir, name) on a component of the project
RemoveFrom ==
    /\ ~panicked
    /\ call.n < MaxRemovals
    /\ \E target_dir \in ComponentDirs, name \in {sub, rem} :
          \E rm  \in IF Local(target_dir, name) THEN RemoveOutcomes ELSE {"ok"},
             npm \in IF Local(target_dir, name) THEN {"ok"} ELSE NpmOutcomes :
             \E r \in {remove(World(dirs, files), links, target_dir, name, rm, npm)} :
                 Returned("remove", target_dir, name, r)

\* update_local_component(target_dir) on a component of the project
UpdateLocalComponent ==
    /\ ~panicked
    /\ call.n < MaxRemovals
    /\ \E target_dir \in ComponentDirs :
          \E pull \in IF exists(dirs, files, Append(target_dir, dot_git))
                      THEN PullOutcomes ELSE {"ok"} :
             \E r \in {update_local_component(World(dirs, files), links, target_dir, pull)} :
                 Returned("update_local_component", target_dir, NoValue, r)

RemoveNext ==
    \/ RemoveFrom
    \/ UpdateLocalComponent

SpecRemove == RemoveInit /\ [][RemoveNext]_vars

-----------------------------------------------------------------------------
(* Claims about remove (under SpecRemove)                                  *)

\* the package manager has been run, or an attempt to run it has been made,
\* during the last call
NpmInvoked ==
    \/ output.status = 200
    \/ InStdout("<stdout of npm>")

\* the last call was a remove that got through the deletion of the local
\* component directory
RemovedLocal ==
    /\ call.op = "remove"
    /\ call.was_local
    /\ output.status \notin 6..9

\* C23: remove(target_dir, name) deletes target_dir/components/name
\* recursively without invoking the package manager if it exists, and
\* otherwise invokes the package manager's uninstall for name; after a
\* removal of a local component the directory no longer exists, status is 0,
\* stderr is empty, and target_dir's manifest has been re-amalgamated without
\* the removed component's markers.
C23_RemoveLocalOrRemote ==
    /\ (call.op = "remove" /\ call.was_local) => ~NpmInvoked
    /\ (call.op = "remove" /\ ~call.was_local) => NpmInvoked
    /\ RemovedLocal =>
          /\ ~panicked
          /\ \A d \in dirs : ~IsWithin(d, call.target \o <<components, call.name>>)
          /\ \A p \in DOMAIN files : ~IsWithin(p, call.target \o <<components, call.name>>)
          /\ output.status = 0
          /\ output.stderr = <<>>
          /\ get_json_value(files, Append(call.target, package_json), license, "ok").value
                = ExpressionOf(call.target)

\* C23 witness: a local component with a license of its own has been removed
\* and the manifest of target_dir, which named that license, has been rewritten
C23_Witness ==
    /\ RemovedLocal
    /\ (call.target \o <<components, call.name, dot_sr>>) \in DOMAIN pre
    /\ contains(pre[Append(call.target, package_json)], GPL)
    /\ ~contains(files[Append(call.target, package_json)], GPL)

\* C28: an operation's success message is put in stdout only when the
\* operation succeeded: `Component <name> was successfully removed.` (remove)
\* and `Component updated successfully.` (update_local_component) appear only
\* if the returned status and wrapped_status are both 0.
C28_SuccessMessageOnlyOnSuccess ==
    /\ ( /\ call.op = "remove"
         /\ InStdout(<<"Component ", call.name, " was successfully removed.">>) )
       => ~SignalsFailure(output)
    /\ ( /\ call.op = "update_local_component"
         /\ InStdout("Component updated successfully.") )
       => ~SignalsFailure(output)

-----------------------------------------------------------------------------
(* Specification SpecUpload: upload_component and remote_login applied to  *)
(* a project                                                               *)

MaxUploads == 2    \* calls made on the project in one run

\* the addresses and the credentials remote_login is given: a user name and
\* a password, neither, or a user name alone
LoginUrls == {RepoUrl(top), <<"g", "i", "t", "@">> \o top}

LoginCredentials ==
    { <<None, None>>,
      <<Some(<<"m", "e">>), Some(<<"p", "w">>)>>,
      <<Some(<<"m", "e">>), None>> }

\* a workspace in which the project top and its component sub have been
\* created, where top may already be a repository and may already hold a
\* .gitignore written by hand
UploadInit ==
    /\ \E is_repository \in BOOLEAN, ignores \in BOOLEAN :
          \E t \in {create_component({<<>>}, {}, <<>>, <<>>, top, MIT, CC0)} :
          \E c \in {create_component(t.dirs, {}, t.files, <<top>>, sub, GPL, CCBY)} :
          \E g \in {IF is_repository
                    THEN git_init(c, <<top>>, <<"g", "i", "t", "@">> \o sub, "ok") ELSE c} :
              /\ dirs = g.dirs
              /\ files = IF ignores THEN WriteFile(g.files, <<top, gitignore>>, own_text)
                         ELSE g.files
    /\ links = {}
    /\ output = NewOutput
    /\ call = NoCall
    /\ pre = files
    /\ writes = <<>>
    /\ ret = NoValue
    /\ input = <<>>
    /\ panicked = FALSE

\* upload_component(target_dir, message, url, username, password) on a
\* component of the project, with the address of its repository and without
\* credentials; ret is what the call has committed
UploadComponent ==
    /\ ~panicked
    /\ call.n < MaxUploads
    /\ \E target_dir \in ComponentDirs, git \in GitOutcomes :
          \E r \in {upload_component(World(dirs, files), links, target_dir,
                                     RepoUrl(top), None, None, git)} :
              /\ dirs' = r.dirs
              /\ files' = r.files
              /\ output' = r.output
              /\ panicked' = r.panic
              /\ ret' = r.committed
              /\ call' = [op |-> "upload_component", target |-> target_dir,
                          url |-> RepoUrl(top), username |-> None, password |-> None,
                          had_git |-> exists(dirs, files, Append(target_dir, dot_git)),
                          had_gitignore |-> exists(dirs, files, Append(target_dir, gitignore)),
                          n |-> call.n + 1]
    /\ pre' = files
    /\ UNCHANGED <<links, writes, input>>

\* remote_login(target_dir, url, username, password) on the project
RemoteLogin ==
    /\ ~panicked
    /\ call.n < MaxUploads
    /\ \E target_dir \in {<<top>>}, git \in {"ok", "not_found"},
          url \in LoginUrls, credentials \in LoginCredentials :
          \E username \in {credentials[1]}, password \in {credentials[2]} :
          \E r \in {remote_login(World(dirs, files), target_dir, url, username, password, git)} :
              /\ dirs' = r.dirs
              /\ files' = r.files
              /\ output' = r.output
              /\ panicked' = r.panic
              /\ ret' = NoValue
              /\ call' = [op |-> "remote_login", target |-> target_dir,
                          url |-> url, username |-> username, password |-> password,
                          had_git |-> exists(dirs, files, Append(target_dir, dot_git)),
                          had_gitignore |-> exists(dirs, files, Append(target_dir, gitignore)),
                          n |-> call.n + 1]
    /\ pre' = files
    /\ UNCHANGED <<links, writes, input>>

UploadNext ==
    \/ UploadComponent
    \/ RemoteLogin

SpecUpload == UploadInit /\ [][UploadNext]_vars

-----------------------------------------------------------------------------
(* Claims about upload_component (under SpecUpload)                        *)

\* the positions of a message in stdout
PositionsInStdout(msg) == {i \in DOMAIN output.stdout : SameMessage(output.stdout[i], msg)}

\* the last call was an upload_component that has made its commit
Committed == call.op = "upload_component" /\ ~panicked /\ ret # NoValue

\* C25: upload_component amalgamates the licenses, initialises the repository
\* (only if .git is absent), generates .gitignore (only if absent), then
\* stages, commits and pushes: the manifest committed has its license up to
\* date, and an existing repository or .gitignore is never re-created.
C25_UploadOrder ==
    /\ Committed =>
          /\ get_json_value(ret.files, <<package_json>>, license, "ok").value
                = ExpressionOf(call.target)
          /\ <<gitignore>> \in DOMAIN ret.files
          /\ ret.files[<<gitignore>>] = files[Append(call.target, gitignore)]
          /\ Append(call.target, dot_git) \in dirs
          /\ \A i \in PositionsInStdout("Done initializing git repository for project.") :
                \A j \in PositionsInStdout("Changes staged using git.") : i < j
    /\ call.op = "upload_component" =>
          /\ call.had_git => PositionsInStdout("Done initializing git repository for project.") = {}
          /\ ~call.had_git =>
                \/ PositionsInStdout("Done initializing git repository for project.") # {}
                \/ output.status # 0
          /\ call.had_gitignore =>
                files[Append(call.target, gitignore)] = pre[Append(call.target, gitignore)]
          /\ ~call.had_gitignore =>
                files[Append(call.target, gitignore)] = gitignore_template

\* C25 witness: a first upload of a project whose manifest did not name the
\* license of its component: the manifest committed names it, the repository
\* has been initialised and .gitignore generated
C25_Witness ==
    /\ Committed
    /\ ~call.had_git
    /\ ~call.had_gitignore
    /\ ~contains(pre[Append(call.target, package_json)], GPL)
    /\ contains(ret.files[<<package_json>>], GPL)
    /\ <<gitignore>> \in DOMAIN ret.files

starts_with(s, prefix) == Len(s) >= Len(prefix) /\ SubSeq(s, 1, Len(prefix)) = prefix

\* the URL the claim expects for an address and credentials
WithCredentials(url, username, password) ==
    IF username = None \/ password = None THEN url
    ELSE https \o <<":", "/", "/">> \o username[1] \o <<":">> \o password[1] \o <<"@">>
         \o SubSeq(url, 9, Len(url))

\* the last call has set the URL of the remote of its target
RemoteConfigured ==
    /\ call.op \in {"upload_component", "remote_login"}
    /\ call.op = "upload_component" => ~call.had_git
    /\ (call.target \o <<dot_git, git_config>>) \in DOMAIN files
    /\ output.status = 0

\* C29: add_user_pass_to_https returns the URL unchanged when the username or
\* the password is absent, and with both present returns the URL with
\* `username:password@` inserted after `https://`; consequently
\* upload_component and remote_login called with an https URL and no
\* credentials configure the remote with that same URL.
C29_UrlWithCredentials ==
    /\ ( /\ call.op \in {"upload_component", "remote_login"}
         /\ starts_with(call.url, https \o <<":", "/", "/">>) )
       => add_user_pass_to_https(call.url, call.username, call.password)
             = WithCredentials(call.url, call.username, call.password)
    /\ ( /\ RemoteConfigured
         /\ starts_with(call.url, https \o <<":", "/", "/">>)
         /\ call.username = None /\ call.password = None )
       => files[call.target \o <<dot_git, git_config>>] = call.url

-----------------------------------------------------------------------------
(* Specification SpecCreate: create_component applied to a workspace       *)

MaxCreations == 2    \* calls of create_component made in one run

CreateNames   == {top, sub}
CreateSources == {MIT, GPL}
CreateDocs    == {CC0, CCBY}

\* the workspaces the calls start from: an empty one, and two in which the
\* directory top has been prepared by hand: with a README.md and a docs
\* directory; with all four files, the manifest and the marker naming other
\* licenses, and the four directories, without placeholder files
PreparedWorkspaces ==
    { [dirs |-> {<<>>}, files |-> <<>>],
      [dirs |-> {<<>>, <<top>>, <<top, docs>>},
       files |-> (<<top, README_md>> :> own_text)],
      [dirs |-> {<<>>, <<top>>, <<top, components>>, <<top, dist>>, <<top, docs>>,
                 <<top, source>>},
       files |-> (<<top, README_md>> :> own_text)
                 @@ (<<top, bom_data_yaml>> :> own_text)
                 @@ (<<top, package_json>> :> package_json_template(rem, Unlicense))
                 @@ (<<top, dot_sr>> :> sr_file_template(Unlicense, CCBY))] }

\* an empty workspace, or one with a directory prepared by hand
CreateInit ==
    /\ \E w \in PreparedWorkspaces : dirs = w.dirs /\ files = w.files
    /\ links = {}
    /\ output = NewOutput
    /\ call = NoCall
    /\ pre = files
    /\ writes = <<>>
    /\ ret = NoValue
    /\ input = <<>>
    /\ panicked = FALSE

\* create_component(target_dir, name, source_license, doc_license) on the
\* workspace or on a component of it; the call records what the target held
\* when it was made
CreateComponentIn ==
    /\ ~panicked
    /\ call.n < MaxCreations
    /\ \E target_dir \in {<<>>} \cup ComponentDirs, name \in CreateNames,
          source_value \in CreateSources, doc_value \in CreateDocs :
          \E r \in {create_component(dirs, links, files, target_dir, name,
                                     source_value, doc_value)} :
              /\ dirs' = r.dirs
              /\ files' = r.files
              /\ output' = r.output
              /\ panicked' = r.panic
              /\ call' = [op |-> "create_component", target |-> target_dir, name |-> name,
                          source_value |-> source_value, doc_value |-> doc_value,
                          had_marker |-> exists(dirs, files, Append(target_dir, dot_sr)),
                          beside  |-> exists(dirs, files, Append(target_dir, name)),
                          beneath |-> exists(dirs, files, target_dir \o <<components, name>>),
                          reused  |-> {d \in {components, dist, docs, source} :
                                          exists(dirs, files,
                                                 Append(component_dir_of(dirs, files, target_dir, name), d))},
                          n |-> call.n + 1]
    /\ pre' = files
    /\ UNCHANGED <<links, writes, ret, input>>

CreateNext == CreateComponentIn

SpecCreate == CreateInit /\ [][CreateNext]_vars

-----------------------------------------------------------------------------
(* Claims about create_component (under SpecCreate)                        *)

\* file_contains_content(file, line, text) of the tests: line `line`
\* (counted from 0) of the file, trimmed, is the text
line_is(text, line, expected) ==
    \A ls \in {lines(text)} : Len(ls) > line /\ trim(ls[line + 1]) = expected

\* is_valid_component(component_path, component_name, source_license,
\* doc_license) of the tests
is_valid_component(ds, fs, component_path, component_name, source_value, doc_value) ==
    /\ component_path \in ds
    /\ \A d \in {components, docs, source} : Append(component_path, d) \in ds
    /\ \A f \in {bom_data_yaml, package_json, README_md} : Append(component_path, f) \in DOMAIN fs
    /\ line_is(fs[Append(component_path, bom_data_yaml)], 0,
               <<"#", " ", "B", "i", "l", "l", " ", "o", "f", " ", "M", "a", "t", "e", "r", "i", "a", "l", "s", " ", "D", "a", "t", "a", " ", "f", "o", "r", " ">> \o component_name)
    /\ line_is(fs[Append(component_path, bom_data_yaml)], 12,
               <<"-", "c", "o", "m", "p", "o", "n", "e", "n", "t", "_", "1">>)
    /\ contains(fs[Append(component_path, package_json)],
                Quote \o name_key \o Quote \o <<":", " ">> \o Quote \o component_name \o Quote \o <<",">>)
    /\ contains(fs[Append(component_path, package_json)],
                Quote \o license \o Quote \o <<":", " ">> \o Quote
                \o <<"(">> \o source_value \o AND \o doc_value \o <<")">> \o Quote \o <<",">>)
    /\ line_is(fs[Append(component_path, README_md)], 0, <<"#", " ">> \o component_name)
    /\ line_is(fs[Append(component_path, README_md)], 1,
               <<"N", "e", "w", " ", "S", "l", "i", "d", "e", "r", "u", "l", "e", " ", "c", "o", "m", "p", "o", "n", "e", "n", "t", ".">>)
    /\ Append(component_path, dot_sr) \in DOMAIN fs
    /\ line_is(fs[Append(component_path, dot_sr)], 0,
               source_license \o <<":", " ">> \o source_value \o <<",">>)
    /\ line_is(fs[Append(component_path, dot_sr)], 1,
               documentation_license \o <<":", " ">> \o doc_value)

\* where the claim places the component of the last call
PlaceOfComponent ==
    IF call.had_marker THEN call.target \o <<components, call.name>>
    ELSE Append(call.target, call.name)

\* the component directory of the last call did not exist when it was made
WasAbsent == IF call.had_marker THEN ~call.beneath ELSE ~call.beside

\* C20: create_component(target_dir, name, S, D), when the component
\* directory does not exist yet, creates it at target_dir/components/name if
\* target_dir holds a marker and at target_dir/name otherwise, returns status
\* 0, and leaves a valid component: its marker records S and D, and the
\* license of its manifest is exactly "(S AND D)".
C20_CreatesValidComponent ==
    (call.op = "create_component" /\ WasAbsent) =>
        /\ ~panicked
        /\ output.status = 0
        /\ PlaceOfComponent \in dirs
        /\ (call.had_marker /\ ~call.beside) => Append(call.target, call.name) \notin dirs
        /\ is_valid_component(dirs, files, PlaceOfComponent, call.name,
                              call.source_value, call.doc_value)
        /\ get_yaml_value(files, Append(PlaceOfComponent, dot_sr), source_license, "ok").value
              = call.source_value
        /\ get_yaml_value(files, Append(PlaceOfComponent, dot_sr), documentation_license, "ok").value
              = call.doc_value
        /\ get_json_value(files, Append(PlaceOfComponent, package_json), license, "ok").value
              = <<"(">> \o call.source_value \o AND \o call.doc_value \o <<")">>

\* C20 witness: create_component has returned on a target that holds a
\* marker, and the component stands in the target's components directory
C20_Witness ==
    /\ call.op = "create_component"
    /\ call.had_marker
    /\ ~call.beneath
    /\ output.status = 0
    /\ (call.target \o <<components, call.name, dot_sr>>) \in DOMAIN files

\* the note generate_* and create_component put in stdout for a file or a
\* directory they found in place
NoteOfFile(f) ==
    IF f = README_md
    THEN "README.md already exists, using existing file and refusing to overwrite."
    ELSE IF f = bom_data_yaml
    THEN "bom_data.yaml already exists, using existing file and refusing to overwrite."
    ELSE IF f = package_json
    THEN "package.json already exists, using existing file and refusing to overwrite."
    ELSE ".sr already exists, using existing file and refusing to overwrite."

NoteOfDirectory(d) ==
    << IF d = components THEN "components"
       ELSE IF d = dist THEN "dist"
       ELSE IF d = docs THEN "docs"
       ELSE "source",
       " directory already exists, using existing directory." >>

\* text `after` is text `before` apart from the value of its license member
SameApartFromLicenseValue(before, after) ==
    \A b \in {lines(before)} : \A a \in {lines(after)} :
        /\ Len(a) = Len(b)
        /\ \A i \in DOMAIN b :
              IF contains(b[i], Quote \o license \o Quote \o <<":">>)
              THEN KeyText(a[i]) = KeyText(b[i])
              ELSE a[i] = b[i]

\* C24: create_component never overwrites an existing README.md,
\* bom_data.yaml, package.json or .sr of the component directory: the content
\* of such a file is kept (apart from the license value of the manifest, which
\* the final amalgamation rewrites) and a note is added to stdout; existing
\* components, dist, docs and source directories are reused.
C24_NeverOverwrites ==
    call.op = "create_component" =>
        /\ \A f \in {README_md, bom_data_yaml, dot_sr} :
              Append(PlaceOfComponent, f) \in DOMAIN pre =>
                  /\ Append(PlaceOfComponent, f) \in DOMAIN files
                  /\ files[Append(PlaceOfComponent, f)] = pre[Append(PlaceOfComponent, f)]
                  /\ InStdout(NoteOfFile(f))
        /\ Append(PlaceOfComponent, package_json) \in DOMAIN pre =>
              /\ Append(PlaceOfComponent, package_json) \in DOMAIN files
              /\ SameApartFromLicenseValue(pre[Append(PlaceOfComponent, package_json)],
                                           files[Append(PlaceOfComponent, package_json)])
              /\ InStdout(NoteOfFile(package_json))
        /\ \A d \in call.reused :
              /\ Append(PlaceOfComponent, d) \in dirs
              /\ InStdout(NoteOfDirectory(d))
              /\ \A p \in DOMAIN files \cup DOMAIN pre :
                    IsWithin(p, Append(PlaceOfComponent, d)) =>
                        p \in DOMAIN files /\ p \in DOMAIN pre /\ files[p] = pre[p]

\* C24 witness: a call found a README.md and a manifest written by hand and a
\* docs directory; the manifest's license value was rewritten, and the files
\* that were missing have been generated
C24_Witness ==
    /\ call.op = "create_component"
    /\ docs \in call.reused
    /\ Append(PlaceOfComponent, README_md) \in DOMAIN pre
    /\ pre[Append(PlaceOfComponent, README_md)] = own_text
    /\ Append(PlaceOfComponent, package_json) \in DOMAIN pre
    /\ files[Append(PlaceOfComponent, package_json)] # pre[Append(PlaceOfComponent, package_json)]
    /\ Append(PlaceOfComponent, dot_sr) \in DOMAIN files

-----------------------------------------------------------------------------
(* Specification SpecChange: change_licenses applied to a component        *)

MaxLicenseChanges == 2    \* calls of change_licenses made in one run

\* the licenses the component was created with, the empty one included, and
\* the licenses it is changed to
PreviousSources == {MIT, GPL, NoValue}
PreviousDocs    == {CC0, NoValue}
ChangeSources   == {MIT, GPL}
ChangeDocs      == {CC0, CCBY}

\* the documentation license get_licenses hands back when there is no marker
default_doc_license == <<"C", "C", "0", "-", "1", ".", "0">>

\* get_licenses(target_dir)
get_licenses(ds, fs, target_dir) ==
    IF exists(ds, fs, Append(target_dir, dot_sr))
    THEN Bind(get_yaml_value(fs, Append(target_dir, dot_sr), source_license, "ok"), LAMBDA s :
         Bind(get_yaml_value(fs, Append(target_dir, dot_sr), documentation_license, "ok"), LAMBDA d :
             [panic |-> s.panic \/ d.panic, value |-> <<s.value, d.value>>]))
    ELSE [panic |-> FALSE, value |-> <<Unlicense, default_doc_license>>]

\* a workspace in which the component top has been created with a pair of
\* licenses
ChangeInit ==
    /\ \E source_value \in PreviousSources, doc_value \in PreviousDocs :
          \E c \in {create_component({<<>>}, {}, <<>>, <<>>, top, source_value, doc_value)} :
              dirs = c.dirs /\ files = c.files
    /\ links = {}
    /\ output = NewOutput
    /\ call = NoCall
    /\ pre = files
    /\ writes = <<>>
    /\ ret = NoValue
    /\ input = <<>>
    /\ panicked = FALSE

\* change_licenses(target_dir, source_license, doc_license) on the component
ChangeLicensesOf ==
    /\ ~panicked
    /\ call.n < MaxLicenseChanges
    /\ \E source_value \in ChangeSources, doc_value \in ChangeDocs :
          \E r \in {change_licenses(dirs, links, files, <<top>>, source_value, doc_value)} :
              /\ dirs' = r.dirs
              /\ files' = r.files
              /\ output' = r.output
              /\ panicked' = r.panic
              /\ call' = [op |-> "change_licenses", target |-> <<top>>,
                          source_value |-> source_value, doc_value |-> doc_value,
                          n |-> call.n + 1]
    /\ pre' = files
    /\ ret' = NoValue
    /\ UNCHANGED <<links, writes, input>>

\* get_licenses(target_dir) after a change of the licenses
GetLicenses ==
    /\ ~panicked
    /\ call.op = "change_licenses"
    /\ \E r \in {get_licenses(dirs, files, call.target)} :
          /\ ret' = r.value
          /\ panicked' = r.panic
    /\ call' = [call EXCEPT !.op = "get_licenses"]
    /\ UNCHANGED <<dirs, links, files, output, pre, writes, input>>

ChangeNext ==
    \/ ChangeLicensesOf
    \/ GetLicenses

SpecChange == ChangeInit /\ [][ChangeNext]_vars

-----------------------------------------------------------------------------
(* Claims about change_licenses (under SpecChange)                         *)

\* the key texts of the lines of a marker
KeysOfMarker(text) == [i \in DOMAIN lines(text) |-> KeyText(lines(text)[i])]

\* C21: change_licenses(D, S, L) on a component directory D returns status 0
\* with empty stderr; afterwards D's marker holds source_license S and
\* documentation_license L (get_licenses(D) returns (S, L)) with its key
\* names intact, and the license of D's manifest contains both S and L,
\* whatever the two licenses were before.
C21_ChangeLicensesTakesEffect ==
    /\ call.op = "change_licenses" =>
          /\ ~panicked
          /\ output.status = 0
          /\ output.stderr = <<>>
          /\ KeysOfMarker(files[Append(call.target, dot_sr)])
                = <<source_license, documentation_license>>
          /\ \A v \in {get_json_value(files, Append(call.target, package_json), license, "ok")} :
                /\ ~v.panic
                /\ contains(v.value, call.source_value)
                /\ contains(v.value, call.doc_value)
    /\ call.op = "get_licenses" =>
          /\ ~panicked
          /\ ret = <<call.source_value, call.doc_value>>


=============================================================================
